---- MODULE Spec2Model ----
(***************************************************************************)
(* Dispatch core of the LLM gateway: the retry / backoff engine            *)
(* (with_retries, with_async_retries), the provider client cache           *)
(* (LLM._get_client, AsyncLLM._get_provider_client, AsyncResourceManager), *)
(* the streaming loop of stream_chat, the request validators and the       *)
(* plugin loaders.  Each subsystem has its own variables and its own       *)
(* specification; the variables of the other subsystems stay parked.       *)
(***************************************************************************)
EXTENDS Integers, Sequences, FiniteSets, TLC

VARIABLES
    \* ---- retry engine: one run of with_retries / with_async_retries
    rMode,        \* "sync" (with_retries) or "async" (with_async_retries)
    rMax,         \* retry_policy.max_attempts
    rProvider,    \* the `provider` argument of the engine
    rCancel,      \* the await during which the task is cancelled, 0 = never
    rPlan,        \* the stub: outcome of the i-th invocation of fn
    rState,       \* "IDLE", "ATTEMPTING", "BACKING_OFF", "RETURNED", "RAISED"
    rAttempt,     \* the loop variable `attempt`
    rCalls,       \* invocations of fn so far
    rSleeps,      \* backoff sleeps begun so far
    rLastError,   \* last_error: index of the invocation that raised it, 0 = None
    rOutcome,     \* what the run returned or raised
    \* ---- streaming loop of stream_chat
    sPlan,        \* what the provider's stream_chat iterator does, item by item
    sPos,         \* items pulled from the provider's iterator so far
    sDelivered,   \* events yielded to the caller so far
    sState,       \* "IDLE", "YIELDED", "RETURNED", "RAISED"
    \* ---- request validation
    vRequest,     \* the ChatRequest handed to validate_chat_request
    vVerdict,     \* "pending", "ok", or the message of the ValidationError
    \* ---- one SDK instance (LLM or AsyncLLM) used by one caller
    sdkVariant,      \* which class: "sync", "async_pkg", "async_src"
    sdkSettings,     \* settings.default_provider, settings.default_model
    sdkRegistry,     \* registry: provider name -> entry
    sdkCache,        \* _clients / resources._clients: name -> client id, 0 = none
    sdkFactoryCalls, \* factory invocations per provider name
    sdkObtained,     \* per provider name, the clients handed to operations
    sdkClients,      \* clients created so far (the last client id)
    sdkOps,          \* operations begun so far
    sdkOp,           \* the operation in progress, or the last one
    sdkLogger,       \* self.logger is not None
    sdkExpected,     \* how the operation proceeds on an instance with a logger
    \* ---- threads sharing one LLM instance
    thPc,            \* per thread: "idle", "missed", "created", "done"
    thProvider,      \* per thread: the provider name it asks for
    thClient,        \* per thread: its local `cached` / `client`
    thCache,         \* self._clients: name -> client id, 0 = none
    thFactoryCalls,  \* factory invocations per provider name
    thClients,       \* clients created so far (the last client id)
    \* ---- one AsyncResourceManager
    cmClients,       \* _clients, in insertion order
    cmState,         \* aclose: "IDLE", "CLOSING", "RETURNED", "RAISED"
    cmPos,           \* position of the iterator over _clients.values()
    cmSize,          \* size of _clients when the iterator was created
    cmTargets,       \* clients cached when aclose was called
    cmAttempted,     \* clients whose aclose() this aclose has called
    cmClosed,        \* clients whose aclose() has returned
    cmCloseCount,    \* per client, the times its aclose() has returned
    cmCloses,        \* calls of aclose so far
    cmMade,          \* clients handed to set_cached so far
    cmDisturbed,     \* set_cached has run since aclose was called
    \* ---- one run of a plugin loader
    plLoader,        \* which loader runs
    plEps,           \* the entry points of the group, in discovery order
    plPos,           \* entry points processed
    plLoaded,        \* PluginLoadResult.loaded
    plFailed,        \* PluginLoadResult.failed: name -> error text
    plRegistered,    \* names registered in the registry
    plState,         \* "IDLE", "LOADING", "RETURNED", "RAISED"
    \* ---- one call of a provider client's embed
    eClient,         \* which client: "noop", "gemini"
    eInput,          \* request.input
    eResponse,       \* what the provider's API answers
    eVectors,        \* EmbeddingResponse.vectors
    eState,          \* "IDLE", "RETURNED", "RAISED"
    \* ---- one call of compute_delay
    dMode,           \* whose: "sync" RetryPolicy, "async" AsyncRetryPolicy
    dBase,           \* base_delay_s
    dMax,            \* max_delay_s
    dAttempt,        \* the attempt number passed
    dDelay,          \* the delay returned
    dState,          \* "IDLE", "RETURNED"
    \* ---- one provider registry
    regKind,         \* which class: "sync_registry", "async_registry"
    regEntries,      \* _providers / _factories: name -> entry, <<>> = absent
    regLast,         \* the last operation performed on it
    \* ---- the TokenTracker singleton and the threads that use it
    tkPc,            \* per thread: where it is
    tkConfig,        \* per thread: whether it passes a config
    tkInstances,     \* TokenTracker objects created
    tkInitialized,   \* _instance._initialized
    tkInits,         \* bodies of __init__ begun
    tkLock,          \* _data_lock: the number of the Lock object, 0 = unset
    tkLocks,         \* Lock objects created
    tkHeld,          \* the Lock objects that are held
    tkMyLock,        \* per thread: the Lock object it holds, 0 = none
    tkCache,         \* cache: the number of the TokenUsage object, 0 = unset
    tkCaches,        \* TokenUsage objects created
    tkTotal,         \* per TokenUsage object: total_tokens
    tkHistory,       \* per TokenUsage object: token_count of the history items
    tkRef,           \* per thread: the TokenUsage object it loaded
    tkVal,           \* per thread: the total_tokens it loaded
    tkCount,         \* per thread: the token_count it is adding
    tkAdded,         \* token counts added since the last reset
    tkAdds,          \* calls of add_usage so far
    tkResets,        \* calls of reset so far
    \* ---- one AsyncLLM and the coroutines of one event loop that use it
    coVariant,       \* which AsyncLLM: "async_pkg", "async_src"
    coMax,           \* retry_policy.max_attempts
    coPc,            \* per coroutine: where its chat call is
    coAttempt,       \* per coroutine: `attempt` of with_async_retries
    coClient,        \* per coroutine: the client it holds, 0 = none
    coRunning,       \* the coroutine that has the event loop, 0 = none
    coCache,         \* resources._clients[provider]: client id, 0 = absent
    coFactoryCalls,  \* calls of factory.create
    coClients,       \* clients created so far (the last client id)
    coClosed,        \* clients whose aclose() has returned
    coCloser,        \* the task calling aclose: "idle", "closing", "done"
    coClosing,       \* the client whose aclose() it awaits, 0 = none
    coOnClosed,      \* a provider method was started on a closed client
    \* ---- two runs of a retry engine, side by side
    fgMode,          \* which engine: "sync", "async"
    fgMax,           \* max_attempts of both runs
    fgErrors,        \* first run: what each invocation returns or raises
    fgTwin,          \* second run: the same with other error details
    fgResult,        \* how the first run ends
    fgTwinResult,    \* how the second run ends
    fgState          \* "IDLE", "DONE"

retryVars == <<rMode, rMax, rProvider, rCancel, rPlan, rState, rAttempt, rCalls,
               rSleeps, rLastError, rOutcome>>

streamVars == <<sPlan, sPos, sDelivered, sState>>

validateVars == <<vRequest, vVerdict>>

sdkVars == <<sdkVariant, sdkSettings, sdkRegistry, sdkCache, sdkFactoryCalls,
             sdkObtained, sdkClients, sdkOps, sdkOp, sdkLogger, sdkExpected>>

threadVars == <<thPc, thProvider, thClient, thCache, thFactoryCalls, thClients>>

closeVars ==
    <<cmClients, cmState, cmPos, cmSize, cmTargets, cmAttempted, cmClosed,
      cmCloseCount, cmCloses, cmMade, cmDisturbed>>

pluginVars == <<plLoader, plEps, plPos, plLoaded, plFailed, plRegistered, plState>>

embedVars == <<eClient, eInput, eResponse, eVectors, eState>>

delayVars == <<dMode, dBase, dMax, dAttempt, dDelay, dState>>

registryVars == <<regKind, regEntries, regLast>>

tokenVars ==
    <<tkPc, tkConfig, tkInstances, tkInitialized, tkInits, tkLock, tkLocks,
      tkHeld, tkMyLock, tkCache, tkCaches, tkTotal, tkHistory, tkRef, tkVal,
      tkCount, tkAdded, tkAdds, tkResets>>

coroutineVars ==
    <<coVariant, coMax, coPc, coAttempt, coClient, coRunning, coCache,
      coFactoryCalls, coClients, coClosed, coCloser, coClosing, coOnClosed>>

flagVars ==
    <<fgMode, fgMax, fgErrors, fgTwin, fgResult, fgTwinResult, fgState>>

vars ==
    <<retryVars, streamVars, validateVars, sdkVars, threadVars, closeVars,
      pluginVars, embedVars, delayVars, registryVars, tokenVars,
      coroutineVars, flagVars>>

(***************************************************************************)
(* Bounds of the model.                                                    *)
(***************************************************************************)
MaxAttempts == 3

\* Longest sequence of items a provider stream is drawn from.
MaxEvents == 4

\* Longest message list a chat request is drawn from.
MaxMessages == 2

\* Number of operations the caller of an SDK instance performs.
MaxOps == 2

\* Number of threads that share one LLM instance.
MaxThreads == 3

\* Number of clients handed to a resource manager.
MaxClients == 3

\* Number of times aclose is called on a resource manager.
MaxCloses == 2

\* Number of installed plugins (entry points of the group).
MaxPlugins == 3

\* Number of input strings of an embedding request.
MaxInputs == 3

\* Largest base_delay_s, in quarter seconds.
MaxBaseDelay == 2

\* Largest max_delay_s, in quarter seconds.
MaxDelayCap == 5

\* Number of attempt numbers after the first one.
MaxRetryNumber == 3

\* Number of threads that use the TokenTracker.
MaxTrackerThreads == 2

\* Number of add_usage calls made by the threads together.
MaxAdds == 2

\* Number of reset calls made by the threads together.
MaxResets == 1

\* Number of coroutines that call chat on one AsyncLLM.
MaxCoroutines == 2

(***************************************************************************)
(* Retry engine.                                                           *)
(***************************************************************************)
\* What one invocation of the wrapped operation does: it returns, raises
\* ProviderError(is_retryable=True), raises ProviderError(is_retryable=False),
\* or raises an exception that is not a ProviderError.
Outcomes == {"ok", "retryable", "fatal", "other"}

RetryModes == {"sync", "async"}

NoOutcome == [kind |-> "none", err |-> 0, result |-> 0]

Returned(i) == [kind |-> "return", err |-> 0, result |-> i]

\* ProviderError raised by invocation i, re-raised by a bare `raise`.
ProviderError(i) == [kind |-> "ProviderError", err |-> i, result |-> 0]

\* An exception that `except ProviderError` does not catch.
OtherError(i) == [kind |-> "OtherError", err |-> i, result |-> 0]

\* The dataclass TimeoutError(provider, last_error=None); last_error is the
\* error of invocation `last` (0 = None).
TimeoutError(provider, last) ==
    [kind |-> "TimeoutError", provider |-> provider, err |-> last, result |-> 0]

\* with_retries: `raise TimeoutError(provider=provider, last_error=last_error)`
SyncTimeoutError(provider, last) == TimeoutError(<<provider>>, last)

\* with_async_retries:
\*     `raise TimeoutError(f"[{provider}] retries exhausted: {last_error}")`
\* The formatted text is the first positional argument, the field `provider`;
\* last_error keeps its default None.
AsyncTimeoutError(provider, last) ==
    TimeoutError(<<"[", provider, "] retries exhausted: ", last>>, 0)

ExhaustionError(mode, provider, last) ==
    IF mode = "sync" THEN SyncTimeoutError(provider, last)
                     ELSE AsyncTimeoutError(provider, last)

\* Outcome of the i-th invocation of the stub.
OutcomeAt(i) == IF i \in DOMAIN rPlan THEN rPlan[i] ELSE "ok"

\* `except ProviderError as e`
IsProviderError(o) == o \in {"retryable", "fatal"}

\* `e.is_retryable`
is_retryable(o) == o = "retryable"

\* Mutant: the loop written as range(max_attempts - 1).
SyncLoopContinues_OffByOne(attempt, max) == attempt + 1 < max

\* with_retries: `for attempt in range(retry_policy.max_attempts)`
SyncLoopContinues(attempt, max) == attempt < max

\* with_async_retries: `for attempt in range(1, policy.max_attempts + 1)`
AsyncLoopContinues(attempt, max) == attempt <= max

\* with_async_retries: `if not e.is_retryable or attempt >= policy.max_attempts: raise`
AsyncReraises(o, attempt, max) == ~is_retryable(o) \/ attempt >= max

\* Mutant: the retryable flag is not looked at, every ProviderError is retried.
SyncReraises_Never(o) == FALSE

\* with_retries: `if not e.is_retryable: raise`
SyncReraises(o) == ~is_retryable(o)

LoopContinues(mode, attempt, max) ==
    IF mode = "sync" THEN SyncLoopContinues(attempt, max)
                     ELSE AsyncLoopContinues(attempt, max)

\* The for statement is evaluated: either the body runs with `attempt`, or the
\* loop is over and the statement after it raises TimeoutError.
LoopHead(attempt) ==
    IF LoopContinues(rMode, attempt, rMax)
    THEN /\ rState' = "ATTEMPTING"
         /\ rAttempt' = attempt
         /\ rOutcome' = rOutcome
    ELSE /\ rState' = "RAISED"
         /\ rAttempt' = rAttempt
         /\ rOutcome' = ExhaustionError(rMode, rProvider, rLastError)

\* asyncio.CancelledError, raised inside the task at the await it is
\* suspended in.
CancelledError == [kind |-> "CancelledError", err |-> 0, result |-> 0]

\* The awaits of a run are numbered in the order they begin: every
\* `await fn()` and every `await asyncio.sleep(...)`.
Awaits == rCalls + rSleeps

\* The await about to begin is the one during which the task is cancelled.
CancelledNow == rCancel # 0 /\ rCancel = Awaits + 1

\* Mutant: the clause is written `except BaseException`.
ExceptCatches_Everything(exc) == TRUE

\* `except ProviderError as e` around `return await fn()`
ExceptCatches(exc) == exc.kind = "ProviderError"

\* The engine is called: last_error = None and the loop is entered.
RetryStart ==
    /\ rState = "IDLE"
    /\ LoopHead(IF rMode = "sync" THEN 0 ELSE 1)
    /\ UNCHANGED <<rMode, rMax, rProvider, rCancel, rPlan, rCalls, rSleeps, rLastError>>

\* `return fn()` in with_retries, with its except clause.
SyncInvoke ==
    /\ rState = "ATTEMPTING"
    /\ rMode = "sync"
    /\ rCalls' = rCalls + 1
    /\ LET i == rCalls + 1
           o == OutcomeAt(i)
       IN  IF o = "ok"
           THEN /\ rState' = "RETURNED"
                /\ rOutcome' = Returned(i)
                /\ rLastError' = rLastError
           ELSE IF ~IsProviderError(o)
           THEN /\ rState' = "RAISED"
                /\ rOutcome' = OtherError(i)
                /\ rLastError' = rLastError
           ELSE IF SyncReraises(o)
           THEN /\ rState' = "RAISED"
                /\ rOutcome' = ProviderError(i)
                /\ rLastError' = rLastError
           ELSE /\ rState' = "BACKING_OFF"
                /\ rOutcome' = rOutcome
                /\ rLastError' = i
    /\ UNCHANGED <<rMode, rMax, rProvider, rCancel, rPlan, rAttempt, rSleeps>>

\* `return await fn()` in with_async_retries, with its except clause.
AsyncInvoke ==
    /\ rState = "ATTEMPTING"
    /\ rMode = "async"
    /\ ~CancelledNow
    /\ rCalls' = rCalls + 1
    /\ LET i == rCalls + 1
           o == OutcomeAt(i)
       IN  IF o = "ok"
           THEN /\ rState' = "RETURNED"
                /\ rOutcome' = Returned(i)
                /\ rLastError' = rLastError
           ELSE IF ~IsProviderError(o)
           THEN /\ rState' = "RAISED"
                /\ rOutcome' = OtherError(i)
                /\ rLastError' = rLastError
           ELSE IF AsyncReraises(o, rAttempt, rMax)
           THEN /\ rState' = "RAISED"
                /\ rOutcome' = ProviderError(i)
                /\ rLastError' = i
           ELSE /\ rState' = "BACKING_OFF"
                /\ rOutcome' = rOutcome
                /\ rLastError' = i
    /\ UNCHANGED <<rMode, rMax, rProvider, rCancel, rPlan, rAttempt, rSleeps>>

\* The task is cancelled while with_async_retries is suspended in
\* `await fn()` (inside the try) or in `await asyncio.sleep(...)` (inside
\* the except clause, where nothing catches).
RetryCancelled ==
    /\ rMode = "async"
    /\ CancelledNow
    /\ \/ /\ rState = "ATTEMPTING"
          /\ rCalls' = rCalls + 1
          /\ rSleeps' = rSleeps
          /\ IF ExceptCatches(CancelledError)
             THEN /\ rState' = "BACKING_OFF"
                  /\ rOutcome' = rOutcome
                  /\ rLastError' = rCalls + 1
             ELSE /\ rState' = "RAISED"
                  /\ rOutcome' = CancelledError
                  /\ rLastError' = rLastError
       \/ /\ rState = "BACKING_OFF"
          /\ rSleeps' = rSleeps + 1
          /\ rCalls' = rCalls
          /\ rState' = "RAISED"
          /\ rOutcome' = CancelledError
          /\ rLastError' = rLastError
    /\ UNCHANGED <<rMode, rMax, rProvider, rCancel, rPlan, rAttempt>>

\* time.sleep(...) / await asyncio.sleep(...) ends and the loop goes on.
RetrySleep ==
    /\ rState = "BACKING_OFF"
    /\ ~CancelledNow
    /\ rSleeps' = rSleeps + 1
    /\ LoopHead(rAttempt + 1)
    /\ UNCHANGED <<rMode, rMax, rProvider, rCancel, rPlan, rCalls, rLastError>>

RetryDone == rState \in {"RETURNED", "RAISED"}

RetryIdle ==
    /\ rState = "IDLE"
    /\ rAttempt = 0
    /\ rCalls = 0
    /\ rSleeps = 0
    /\ rLastError = 0
    /\ rOutcome = NoOutcome

RetryInit ==
    /\ rMode \in RetryModes
    /\ rMax \in 0..MaxAttempts
    /\ rProvider \in {"p1", "p2"}
    /\ rCancel = 0
    /\ rPlan \in [1..MaxAttempts -> Outcomes]
    /\ RetryIdle

\* A run of with_async_retries in a task that is cancelled at some await.
CancelInit ==
    /\ rMode = "async"
    /\ rMax \in 1..MaxAttempts
    /\ rProvider \in {"p1", "p2"}
    /\ rCancel \in 1..(2 * MaxAttempts)
    /\ rPlan \in [1..MaxAttempts -> Outcomes]
    /\ RetryIdle

RetryParked ==
    /\ rMode = "sync"
    /\ rMax = 0
    /\ rProvider = ""
    /\ rCancel = 0
    /\ rPlan = <<>>
    /\ RetryIdle

(***************************************************************************)
(* Streaming loop of LLM.stream_chat / AsyncLLM.stream_chat:               *)
(*     for event in client.stream_chat(req):                               *)
(*         yield event                                                     *)
(*         if event.done: return                                           *)
(***************************************************************************)
\* ChatStreamEvent(delta, done)
ChatStreamEvent(delta, done) == [kind |-> "event", delta |-> delta, done |-> done]

\* The provider's iterator raises instead of producing an event.
StreamRaise == [kind |-> "raise", delta |-> "", done |-> FALSE]

\* The provider's iterator raises ProviderError(..., is_retryable=...), as
\* AsyncGeminiLLMClient.stream_chat does (with is_retryable=True) when the
\* stream cannot be established or breaks.
ProviderStreamError(retryable) ==
    [kind |-> "raise", delta |-> "", done |-> FALSE, is_retryable |-> retryable]

Deltas == {"a", ""}

StreamItems ==
    {ChatStreamEvent(d, b) : d \in Deltas, b \in BOOLEAN}
        \cup {StreamRaise, ProviderStreamError(TRUE)}

\* Mutant: an exception of the provider's iterator is swallowed once events
\* have been delivered, and the loop goes on pulling.
StateAfterRaise_Resume(delivered) ==
    IF delivered = <<>> THEN "RAISED" ELSE "YIELDED"

\* The loop of stream_chat has no try/except: whatever the provider's
\* iterator raises leaves the generator.
StateAfterRaise(delivered) == "RAISED"

\* Mutant: the terminal flag is not looked at.
StopsAfter_Never(event) == FALSE

\* `if event.done: return`
StopsAfter(event) == event.done

\* The caller asks for the next event while the generator is suspended at
\* `yield event` with a terminal event: the generator returns.
StreamReturnOnDone ==
    /\ sState = "YIELDED"
    /\ StopsAfter(sDelivered[Len(sDelivered)])
    /\ sState' = "RETURNED"
    /\ UNCHANGED <<sPlan, sPos, sDelivered>>

StreamCanPull ==
    \/ sState = "IDLE"
    \/ sState = "YIELDED" /\ ~StopsAfter(sDelivered[Len(sDelivered)])

\* The caller asks for the next event and the loop pulls one from the
\* provider's iterator, which produces an event: it is yielded.
StreamYield ==
    /\ StreamCanPull
    /\ sPos < Len(sPlan)
    /\ sPlan[sPos + 1].kind = "event"
    /\ sPos' = sPos + 1
    /\ sDelivered' = Append(sDelivered, sPlan[sPos + 1])
    /\ sState' = "YIELDED"
    /\ UNCHANGED sPlan

\* The provider's iterator raises: nothing catches it in stream_chat.
StreamProviderRaises ==
    /\ StreamCanPull
    /\ sPos < Len(sPlan)
    /\ sPlan[sPos + 1].kind = "raise"
    /\ sPos' = sPos + 1
    /\ sState' = StateAfterRaise(sDelivered)
    /\ UNCHANGED <<sPlan, sDelivered>>

\* The provider's iterator is exhausted: the for loop ends.
StreamExhausted ==
    /\ StreamCanPull
    /\ sPos = Len(sPlan)
    /\ sState' = "RETURNED"
    /\ UNCHANGED <<sPlan, sPos, sDelivered>>

StreamIdle ==
    /\ sPos = 0
    /\ sDelivered = <<>>
    /\ sState = "IDLE"

StreamInit ==
    /\ sPlan \in UNION {[1..n -> StreamItems] : n \in 0..MaxEvents}
    /\ StreamIdle

StreamParked ==
    /\ sPlan = <<>>
    /\ StreamIdle

(***************************************************************************)
(* What the stream_chat generators of the provider clients produce.        *)
(***************************************************************************)
\* The pieces of `msg.split(" ")` and the `chunk.text` of the API's chunks:
\* a word, or the empty string (None for a chunk without text).
Pieces == {"a", ""}

PieceLists(lo) == UNION {[1..n -> Pieces] : n \in lo..(MaxEvents - 1)}

\* `ch + " "`
WithSpace(ch) == IF ch = "a" THEN "a " ELSE " "

\* Mutant: the generator ends after the last word.
NoopStream_NoDone(words) ==
    [i \in 1..Len(words) |-> ChatStreamEvent(WithSpace(words[i]), FALSE)]

\* NoopLLMClient.stream_chat / AsyncNoopLLMClient.stream_chat:
\*     for ch in msg.split(" "): yield ChatStreamEvent(delta=ch + " ")
\*     yield ChatStreamEvent(delta="", done=True)
NoopStream(words) ==
    [i \in 1..Len(words) |-> ChatStreamEvent(WithSpace(words[i]), FALSE)]
        \o <<ChatStreamEvent("", TRUE)>>

\* `delta = getattr(chunk, "text", None)`; `if delta: yield
\* ChatStreamEvent(delta=delta, done=False)`
RECURSIVE ChunkEvents(_)
ChunkEvents(chunks) ==
    IF chunks = <<>> THEN <<>>
    ELSE (IF Head(chunks) # "" THEN <<ChatStreamEvent(Head(chunks), FALSE)>>
                               ELSE <<>>) \o ChunkEvents(Tail(chunks))

\* AsyncGeminiLLMClient.stream_chat / GeminiLLMClient.stream_chat when
\* generate_content_stream delivers `chunks`: the events of the chunks that
\* have text, then ChatStreamEvent(delta="", done=True).
GeminiStream(chunks) == ChunkEvents(chunks) \o <<ChatStreamEvent("", TRUE)>>

\* The same when the API fails after `k` chunks (k = 0: the stream cannot
\* be established): ProviderError("gemini", ..., is_retryable=True).
GeminiBrokenStream(chunks, k) ==
    ChunkEvents(SubSeq(chunks, 1, k)) \o <<ProviderStreamError(TRUE)>>

ProviderStreams ==
    {NoopStream(words) : words \in PieceLists(1)}
        \cup {GeminiStream(chunks) : chunks \in PieceLists(0)}
        \cup UNION {{GeminiBrokenStream(chunks, k) : k \in 0..Len(chunks)} :
                        chunks \in PieceLists(0)}

\* stream_chat of the SDK over one of the provider clients.
ProviderStreamInit ==
    /\ sPlan \in ProviderStreams
    /\ StreamIdle

(***************************************************************************)
(* Canonical message model and validate_chat_request / _validate_chat.     *)
(* A str or bytes value is the sequence of its characters; an optional     *)
(* field is <<>> for None and <<v>> for the value v.  A temperature is a   *)
(* float: a number in hundredths, or NaN.                                  *)
(***************************************************************************)
None == <<>>

Some(v) == <<v>>

\* Python truthiness of an optional str / bytes field: not None and not empty.
Truthy(field) == field # None /\ Len(field[1]) > 0

Whitespace == {" "}

RECURSIVE lstrip(_)
lstrip(str) ==
    IF str # <<>> /\ Head(str) \in Whitespace THEN lstrip(Tail(str)) ELSE str

RECURSIVE rstrip(_)
rstrip(str) ==
    IF str # <<>> /\ str[Len(str)] \in Whitespace
    THEN rstrip(SubSeq(str, 1, Len(str) - 1))
    ELSE str

\* str.strip()
strip(str) == rstrip(lstrip(str))

ChatPart(type, text, url, data, uri) ==
    [type |-> type, text |-> text, url |-> url, data |-> data, uri |-> uri]

from_text(text) == ChatPart("text", Some(text), None, None, None)

from_image_url(url) == ChatPart("image_url", None, Some(url), None, None)

from_image_bytes(data) == ChatPart("image_bytes", None, None, Some(data), None)

from_file_uri(uri) == ChatPart("file_uri", None, None, None, Some(uri))

\* ChatMessage(role, content, parts); parts = None and parts = [] are both <<>>.
ChatMessage(role, content, parts) ==
    [role |-> role, content |-> content, parts |-> parts]

\* _msg(role, content), what _normalized_messages makes of a (role, text) pair.
_msg(role, content) == ChatMessage(role, content, <<>>)

\* ChatMessage.normalized_parts
normalized_parts(m) ==
    IF Len(m.parts) > 0 THEN m.parts ELSE <<from_text(m.content)>>

\* Mutant: the text of a text part is not stripped before it is tested.
part_is_valid_NoStrip(part) ==
    IF part.type = "text" /\ Truthy(part.text) THEN TRUE
    ELSE IF part.type \in {"image_url", "file_uri"}
            /\ (Truthy(part.url) \/ Truthy(part.uri)) THEN TRUE
    ELSE IF part.type = "image_bytes" /\ Truthy(part.data) THEN TRUE
    ELSE FALSE

\* The if / elif chain that sets has_any for one part.
part_is_valid(part) ==
    IF part.type = "text" /\ Truthy(part.text)
       /\ Len(strip(part.text[1])) > 0 THEN TRUE
    ELSE IF part.type \in {"image_url", "file_uri"}
            /\ (Truthy(part.url) \/ Truthy(part.uri)) THEN TRUE
    ELSE IF part.type = "image_bytes" /\ Truthy(part.data) THEN TRUE
    ELSE FALSE

\* has_any after the loop over the parts of one message.
has_any(parts) == \E i \in 1..Len(parts) : part_is_valid(parts[i])

TempMin == 0

TempMax == 200

\* A Python float used as a temperature: a number, kept in hundredths, or
\* NaN.
Float(hundredths) == [nan |-> FALSE, hundredths |-> hundredths]

NaN == [nan |-> TRUE, hundredths |-> 0]

\* `a < b` on floats: False whenever an operand is NaN.
FloatLess(a, b) == ~a.nan /\ ~b.nan /\ a.hundredths < b.hundredths

\* ChatRequest.temperature: float = 0.2
DefaultTemperature == 20

\* `if request.temperature < 0.0 or request.temperature > 2.0`
temperature_out_of_range(t) ==
    FloatLess(t, Float(TempMin)) \/ FloatLess(Float(TempMax), t)

\* The loop `for m in request.messages`, from message i on, and the
\* temperature test after it.
RECURSIVE validate_messages_from(_, _)
validate_messages_from(request, i) ==
    IF i > Len(request.messages)
    THEN IF temperature_out_of_range(request.temperature)
         THEN "temperature must be between 0 and 2"
         ELSE "ok"
    ELSE LET parts == normalized_parts(request.messages[i])
         IN  IF Len(parts) = 0 THEN "message parts cannot be empty"
             ELSE IF ~has_any(parts)
             THEN "message parts must contain at least one valid part"
             ELSE validate_messages_from(request, i + 1)

\* validate_chat_request(request) and AsyncLLM._validate_chat(request):
\* "ok", or the message of the ValidationError raised.
validate_chat_request(request) ==
    IF Len(request.messages) = 0 THEN "messages cannot be empty"
    ELSE validate_messages_from(request, 1)

\* Parts the requests are drawn from: each type with its own field set,
\* empty, or missing while a field of another type is set.
PartSamples ==
    { from_text(<<"a">>), from_text(<<" ">>), from_text(<<>>),
      from_text(<<" ", "a", " ">>),
      ChatPart("text", None, Some(<<"u">>), None, None),
      from_image_url(<<"u">>), from_image_url(<<>>),
      ChatPart("image_url", None, None, None, Some(<<"g">>)),
      from_file_uri(<<"g">>), from_file_uri(<<>>),
      ChatPart("file_uri", None, Some(<<"u">>), None, None),
      from_image_bytes(<<"x">>), from_image_bytes(<<>>),
      ChatPart("image_bytes", Some(<<"a">>), None, None, None) }

\* Messages the requests are drawn from: (role, text) pairs, messages of one
\* part, and messages of two parts of which the first, the second or
\* neither is valid.
MessageSamples ==
    {_msg("user", c) : c \in {<<>>, <<" ">>, <<"a">>}}
    \cup {ChatMessage("user", <<>>, <<part>>) : part \in PartSamples}
    \cup {ChatMessage("user", <<"a">>, <<from_text(<<" ">>)>>)}
    \cup {ChatMessage("user", <<>>, <<p1, p2>>) :
              p1 \in {from_text(<<" ">>), from_image_url(<<"u">>)},
              p2 \in {from_text(<<>>), from_image_bytes(<<"x">>)}}

TemperatureSamples ==
    { Float(TempMin - 1), Float(TempMin), Float(DefaultTemperature),
      Float(TempMax), Float(TempMax + 1), NaN }

ChatRequest(messages, temperature) ==
    [messages |-> messages, temperature |-> temperature]

\* The validator is applied to the request.
Validate ==
    /\ vVerdict = "pending"
    /\ vVerdict' = validate_chat_request(vRequest)
    /\ UNCHANGED vRequest

ValidateInit ==
    /\ vRequest \in
           {ChatRequest(ms, t) :
               ms \in UNION {[1..n -> MessageSamples] : n \in 0..MaxMessages},
               t \in TemperatureSamples}
    /\ vVerdict = "pending"

ValidateParked ==
    /\ vRequest = ChatRequest(<<>>, Float(DefaultTemperature))
    /\ vVerdict = "pending"

(***************************************************************************)
(* validate_embedding_request / AsyncLLM._validate_embed.                  *)
(***************************************************************************)
validate_embedding_request(input) ==
    IF Len(input) = 0 THEN "input cannot be empty"
    ELSE IF \E i \in 1..Len(input) : Len(strip(input[i])) = 0
    THEN "input texts cannot be empty"
    ELSE "ok"

(***************************************************************************)
(* The SDK entry points.  "sync" is LLM (sdk.py and sync_sdk.py, the same  *)
(* code), "async_pkg" is AsyncLLM of packages/llm_sdk, "async_src" is      *)
(* AsyncLLM of src/llm_sdk.  One caller performs the operations one after  *)
(* the other; the provider call of chat and embed runs in the retry        *)
(* engine, the loop of stream_chat in the streaming loop above.            *)
(***************************************************************************)
SdkVariants == {"sync", "async_pkg", "async_src"}

Providers == {"p1", "p2"}

\* A registered entry: sync_registry.ProviderSpec (factory, models) and
\* async_registry.ProviderFactory (spec(), create).  `factory` is what the
\* factory does when called: it returns a client, raises, or returns an
\* object that is not an AsyncBaseLLMClient.
Entry(registered, models, chat, embeddings, streaming, async, factory) ==
    [registered |-> registered, models |-> models, supports_chat |-> chat,
     supports_embeddings |-> embeddings, supports_streaming |-> streaming,
     is_async |-> async, factory |-> factory]

FullEntry == Entry(TRUE, {"m1"}, TRUE, TRUE, TRUE, TRUE, "ok")

EntrySamples ==
    { FullEntry,
      Entry(FALSE, {}, FALSE, FALSE, FALSE, FALSE, "ok"),
      Entry(TRUE, {"m1"}, TRUE, FALSE, FALSE, TRUE, "ok"),
      Entry(TRUE, {"m1"}, TRUE, TRUE, TRUE, FALSE, "ok"),
      Entry(TRUE, {"m1"}, TRUE, TRUE, TRUE, TRUE, "raises"),
      Entry(TRUE, {"m1"}, TRUE, TRUE, TRUE, TRUE, "bad_type") }

RegistrySamples ==
    {[p \in Providers |-> IF p = "p1" THEN e ELSE FullEntry] : e \in EntrySamples}

SDKSettings(provider, model) ==
    [default_provider |-> provider, default_model |-> model]

SettingsSamples == {SDKSettings("p1", "m1"), SDKSettings("", "")}

\* Arguments of an operation; "" stands for an omitted (None) argument.
ProviderArgs == {"", "p1", "p2"}

ModelArgs == {"", "m1", "mX"}

\* (role, text) pairs handed to chat / stream_chat, with the temperature.
ChatInputSamples ==
    { [messages |-> <<<<"user", <<"a">>>>>>,
       temperature |-> Float(DefaultTemperature)],
      [messages |-> <<<<"user", <<"a">>>>, <<"user", <<" ">>>>>>,
       temperature |-> Float(DefaultTemperature)],
      [messages |-> <<>>, temperature |-> Float(DefaultTemperature)],
      [messages |-> <<<<"user", <<"a">>>>>>,
       temperature |-> Float(TempMax + 1)] }

EmbedInputSamples == {<<<<"a">>>>, <<<<"a">>, <<" ">>>>, <<>>}

\* Stubs of the provider's chat / embed under max_attempts = 3.
CallPlanSamples ==
    { <<"ok", "ok", "ok">>, <<"retryable", "ok", "ok">>,
      <<"retryable", "retryable", "retryable">>, <<"fatal", "ok", "ok">> }

\* Stubs of the provider's stream_chat iterator.
StreamPlanSamples ==
    { <<ChatStreamEvent("a", FALSE), ChatStreamEvent("", TRUE)>>,
      <<ChatStreamEvent("a", TRUE), ChatStreamEvent("a", FALSE)>>,
      <<ChatStreamEvent("a", FALSE), StreamRaise>>,
      <<ChatStreamEvent("a", FALSE), ProviderStreamError(TRUE)>>,
      <<ProviderStreamError(TRUE), ChatStreamEvent("a", TRUE)>>,
      <<ChatStreamEvent("a", FALSE)>> }

\* RetryPolicy.max_attempts / AsyncRetryPolicy.max_attempts default.
DefaultMaxAttempts == 3

\* _normalized_messages on (role, text) pairs: [_msg(role, content), ...].
_normalized_messages(messages) ==
    [i \in 1..Len(messages) |-> _msg(messages[i][1], messages[i][2])]

\* `provider or self.settings.default_provider`
resolved_provider(provider) ==
    IF provider # "" THEN provider ELSE sdkSettings.default_provider

\* `model or self.settings.default_model`
resolved_model(model) ==
    IF model # "" THEN model ELSE sdkSettings.default_model

\* `name in self._providers` / `self._factories[name]`
registry_has(name) == name \in Providers /\ sdkRegistry[name].registered

\* LLM._resolve_provider_and_model, then registry.resolve_model(prov, mod):
\* "ok" or the error raised.
SyncResolve(prov, mod) ==
    IF prov = "" THEN "ValidationError"
    ELSE IF mod = "" THEN "ValidationError"
    ELSE IF ~registry_has(prov) THEN "ProviderNotFoundError"
    ELSE IF mod \notin sdkRegistry[prov].models THEN "ModelNotFoundError"
    ELSE "ok"

Supports(entry, op) ==
    CASE op = "chat" -> entry.supports_chat
      [] op = "embed" -> entry.supports_embeddings
      [] op = "stream_chat" -> entry.supports_streaming

\* AsyncLLM: registry.get(prov), then the checks of spec.supports_* and
\* spec.is_async: "ok" or the error raised.
AsyncResolve(prov, op) ==
    IF ~registry_has(prov) THEN "KeyError"
    ELSE IF ~Supports(sdkRegistry[prov], op) THEN "ValidationError"
    ELSE IF ~sdkRegistry[prov].is_async THEN "ValidationError"
    ELSE "ok"

Resolve(variant, prov, mod, op) ==
    IF variant = "sync" THEN SyncResolve(prov, mod) ELSE AsyncResolve(prov, op)

\* Whether the operation runs its request through the validator before it
\* asks for the client: LLM does in chat, embed and stream_chat, AsyncLLM
\* does in chat and embed; AsyncLLM.stream_chat has no such call.
RunsValidation(variant, op) == variant = "sync" \/ op # "stream_chat"

\* Whether get-or-create stores the client it made: `self._clients[provider]
\* = client` in LLM, `self.resources.set_cached(provider, client)` in
\* AsyncLLM of packages/llm_sdk; AsyncLLM of src/llm_sdk calls
\* `self.resources.get_cached(provider)` there and stores nothing.
StoresClient(variant) == variant \in {"sync", "async_pkg"}

\* `if not isinstance(client, AsyncBaseLLMClient): raise TypeError`, which
\* only AsyncLLM has.
ChecksClientType(variant) == variant # "sync"

\* LLM._get_client(provider) / AsyncLLM._get_provider_client(provider), run
\* without interruption: the error raised or "ok", the client returned, and
\* the cache, the factory count and the client count afterwards.
GetClientResult(error, client, cache, calls, clients) ==
    [error |-> error, client |-> client, cache |-> cache,
     factoryCalls |-> calls, clients |-> clients]

\* Mutant: the cache entry is made before the factory is called, so a
\* factory that raises leaves an entry behind.
CacheWhenFactoryRaises_EntryLeft(provider) ==
    [sdkCache EXCEPT ![provider] = sdkClients + 1]

\* `client = spec.factory()` / `client = factory.create(self.settings)`
\* raises: the statement that stores the client is below it and is not
\* reached.
CacheWhenFactoryRaises(provider) == sdkCache

_get_client(variant, provider) ==
    IF sdkCache[provider] # 0
    THEN GetClientResult("ok", sdkCache[provider], sdkCache,
                         sdkFactoryCalls, sdkClients)
    ELSE IF ~registry_has(provider)
    THEN GetClientResult(IF variant = "sync" THEN "ProviderNotFoundError"
                                             ELSE "KeyError",
                         0, sdkCache, sdkFactoryCalls, sdkClients)
    ELSE LET calls == [sdkFactoryCalls EXCEPT ![provider] = @ + 1]
             made == sdkClients + 1
         IN  IF sdkRegistry[provider].factory = "raises"
             THEN GetClientResult("FactoryError", 0,
                                  CacheWhenFactoryRaises(provider), calls,
                                  sdkClients)
             ELSE IF sdkRegistry[provider].factory = "bad_type"
                     /\ ChecksClientType(variant)
             THEN GetClientResult("TypeError", 0, sdkCache, calls, made)
             ELSE GetClientResult(
                      "ok", made,
                      IF StoresClient(variant)
                      THEN [sdkCache EXCEPT ![provider] = made]
                      ELSE sdkCache,
                      calls, made)

\* with_async_retries(fn=..., provider=..., retry_policy=...) as AsyncLLM of
\* src/llm_sdk calls it: the function imported from llm_sdk.async_retries
\* names that parameter `policy`, so the call raises TypeError before fn runs.
\* The packaged classes import the engine from llm_sdk.retries with these
\* keyword names; they run the engines modelled above.
RetryCallBinds(variant) == variant # "async_src"

NoOp ==
    [phase |-> "none", op |-> "", provider |-> "", model |-> "",
     malformed |-> FALSE,
     resolved |-> "", client |-> 0, factoryCalls |-> 0, providerCalls |-> 0,
     outcome |-> "", result |-> 0, stub |-> <<>>]

\* The record of an operation: what it is, the provider and model names it
\* resolved, whether its request is malformed
\* under the validator of its kind, how resolution ended, the client it got,
\* the factory and provider invocations it made, and how it ended.
OpRecord(phase, op, prov, mod, malformed, resolved, client, fc, pc, end) ==
    [phase |-> phase, op |-> op, provider |-> prov, model |-> mod,
     malformed |-> malformed,
     resolved |-> resolved, client |-> client, factoryCalls |-> fc,
     providerCalls |-> pc, outcome |-> end, result |-> 0,
     stub |-> <<>>]

\* The operation has got its client; `stub` is what the provider's chat /
\* embed does on its successive invocations for this request.
WithStub(record, plan) == [record EXCEPT !.stub = plan]

\* The operation ends before the provider is called.
EndsEarly(op, prov, mod, malformed, resolved, fcalls, outcome) ==
    /\ sdkOp' = OpRecord("done", op, prov, mod, malformed, resolved, 0, fcalls,
                         0, outcome)
    /\ UNCHANGED <<retryVars, streamVars>>

\* Whether the class calls `self.logger.bind(...)` without testing the
\* logger: AsyncLLM of src/llm_sdk does, as the first statement of chat,
\* embed and stream_chat; the packaged classes test `self.logger is not
\* None` before every use.
LogsUnconditionally(variant) == variant = "async_src"

\* `self.logger.bind(...)` with self.logger None raises AttributeError.
LoggerMissing(variant, logger) == LogsUnconditionally(variant) /\ ~logger

\* How the body of an operation ends before the provider is reached, ""
\* when it reaches the provider: the branches of BeginOp after the logger.
EarlyOutcome(variant, op, resolved, malformed, got) ==
    IF resolved # "ok" THEN resolved
    ELSE IF RunsValidation(variant, op) /\ malformed THEN "ValidationError"
    ELSE IF got.error # "ok" THEN got.error
    ELSE IF op # "stream_chat" /\ ~RetryCallBinds(variant) THEN "TypeError"
    ELSE ""

\* Whether the body gets as far as the get-or-create of the client.
ReachesClient(variant, op, resolved, malformed) ==
    resolved = "ok" /\ ~(RunsValidation(variant, op) /\ malformed)

Expectation(early, fcalls) == [early |-> early, factoryCalls |-> fcalls]

NoExpectation == Expectation("", 0)

\* The caller starts an operation when the previous one has ended.
CanBegin == sdkOp.phase \in {"none", "done"} /\ sdkOps < MaxOps

\* The body of chat / embed / stream_chat up to the provider call, in the
\* order of the code: resolution, validation, get-or-create of the client,
\* then the hand-over to the retry engine or to the streaming loop.
BeginOp(op, provider, model, verdict) ==
    LET prov == resolved_provider(provider)
        mod == resolved_model(model)
        resolved == Resolve(sdkVariant, prov, mod, op)
        malformed == verdict # "ok"
        got == _get_client(sdkVariant, prov)
    IN  /\ sdkOps' = sdkOps + 1
        /\ UNCHANGED <<sdkVariant, sdkSettings, sdkRegistry, sdkLogger,
                       validateVars>>
        /\ sdkExpected' =
               Expectation(
                   EarlyOutcome(sdkVariant, op, resolved, malformed, got),
                   IF ReachesClient(sdkVariant, op, resolved, malformed)
                   THEN got.factoryCalls[prov] - sdkFactoryCalls[prov]
                   ELSE 0)
        /\ IF LoggerMissing(sdkVariant, sdkLogger)
           THEN /\ sdkOp' = OpRecord("done", op, prov, mod, malformed, "", 0,
                                     0, 0, "AttributeError")
                /\ UNCHANGED <<retryVars, streamVars, sdkCache,
                               sdkFactoryCalls, sdkObtained, sdkClients>>
           ELSE IF resolved # "ok"
           THEN /\ EndsEarly(op, prov, mod, malformed, resolved, 0, resolved)
                /\ UNCHANGED <<sdkCache, sdkFactoryCalls, sdkObtained, sdkClients>>
           ELSE IF RunsValidation(sdkVariant, op) /\ malformed
           THEN /\ EndsEarly(op, prov, mod, malformed, resolved, 0, "ValidationError")
                /\ UNCHANGED <<sdkCache, sdkFactoryCalls, sdkObtained, sdkClients>>
           ELSE /\ sdkCache' = got.cache
                /\ sdkFactoryCalls' = got.factoryCalls
                /\ sdkClients' = got.clients
                /\ LET fcalls == got.factoryCalls[prov] - sdkFactoryCalls[prov]
                   IN  IF got.error # "ok"
                       THEN /\ EndsEarly(op, prov, mod, malformed, resolved, fcalls,
                                         got.error)
                            /\ UNCHANGED sdkObtained
                       ELSE /\ sdkObtained' =
                                   [sdkObtained EXCEPT
                                       ![prov] = Append(@, got.client)]
                            /\ IF op = "stream_chat"
                               THEN /\ sPlan' \in StreamPlanSamples
                                    /\ sdkOp' = WithStub(
                                           OpRecord("streaming", op, prov, mod,
                                                  malformed, resolved,
                                                  got.client, fcalls, 1, ""),
                                           sPlan')
                                    /\ UNCHANGED <<sPos, sDelivered, sState,
                                                   retryVars>>
                               ELSE IF ~RetryCallBinds(sdkVariant)
                               THEN /\ \E plan \in CallPlanSamples :
                                           sdkOp' = WithStub(
                                               OpRecord("done", op, prov, mod,
                                                  malformed, resolved,
                                                  got.client, fcalls, 0,
                                                  "TypeError"), plan)
                                    /\ UNCHANGED <<retryVars, streamVars>>
                               ELSE /\ rPlan' \in CallPlanSamples
                                    /\ sdkOp' = WithStub(
                                           OpRecord("calling", op, prov, mod,
                                                  malformed, resolved,
                                                  got.client, fcalls, 0, ""),
                                           rPlan')
                                    /\ rMode' = IF sdkVariant = "sync"
                                                THEN "sync" ELSE "async"
                                    /\ rMax' = DefaultMaxAttempts
                                    /\ rProvider' = prov
                                    /\ rCancel' = 0
                                    /\ UNCHANGED <<rState, rAttempt, rCalls,
                                                   rSleeps, rLastError,
                                                   rOutcome, streamVars>>

\* LLM.chat / AsyncLLM.chat
SdkChat ==
    \E provider \in ProviderArgs, model \in ModelArgs, input \in ChatInputSamples :
        /\ CanBegin
        /\ BeginOp("chat", provider, model,
                   validate_chat_request(
                       ChatRequest(_normalized_messages(input.messages),
                                   input.temperature)))

\* LLM.embed / AsyncLLM.embed
SdkEmbed ==
    \E provider \in ProviderArgs, model \in ModelArgs, input \in EmbedInputSamples :
        /\ CanBegin
        /\ BeginOp("embed", provider, model, validate_embedding_request(input))

\* LLM.stream_chat / AsyncLLM.stream_chat, from the caller's first request
\* for an event.
SdkStreamChat ==
    \E provider \in ProviderArgs, model \in ModelArgs, input \in ChatInputSamples :
        /\ CanBegin
        /\ BeginOp("stream_chat", provider, model,
                   validate_chat_request(
                       ChatRequest(_normalized_messages(input.messages),
                                   input.temperature)))

\* A step of the retry engine on behalf of chat / embed.
SdkRetryStep(A) ==
    /\ sdkOp.phase = "calling"
    /\ A
    /\ UNCHANGED <<sdkVars, streamVars, validateVars>>

\* with_retries / with_async_retries has returned or raised: so does the
\* operation.
SdkCallEnds ==
    /\ sdkOp.phase = "calling"
    /\ RetryDone
    /\ sdkOp' = [sdkOp EXCEPT !.phase = "done",
                              !.providerCalls = rCalls,
                              !.outcome = rOutcome.kind,
                              !.result = rOutcome.result]
    /\ rMode' = "sync"
    /\ rMax' = 0
    /\ rProvider' = ""
    /\ rCancel' = 0
    /\ rPlan' = <<>>
    /\ rState' = "IDLE"
    /\ rAttempt' = 0
    /\ rCalls' = 0
    /\ rSleeps' = 0
    /\ rLastError' = 0
    /\ rOutcome' = NoOutcome
    /\ UNCHANGED <<sdkVariant, sdkSettings, sdkRegistry, sdkCache,
                   sdkFactoryCalls, sdkObtained, sdkClients, sdkOps,
                   sdkLogger, sdkExpected, streamVars, validateVars>>

\* A step of the streaming loop on behalf of stream_chat.
SdkStreamStep(A) ==
    /\ sdkOp.phase = "streaming"
    /\ A
    /\ UNCHANGED <<sdkVars, retryVars, validateVars>>

\* The generator of stream_chat has returned or raised.
SdkStreamEnds ==
    /\ sdkOp.phase = "streaming"
    /\ sState \in {"RETURNED", "RAISED"}
    /\ sdkOp' = [sdkOp EXCEPT !.phase = "done",
                              !.outcome = IF sState = "RAISED"
                                          THEN "StreamError" ELSE "return"]
    /\ sPlan' = <<>>
    /\ sPos' = 0
    /\ sDelivered' = <<>>
    /\ sState' = "IDLE"
    /\ UNCHANGED <<sdkVariant, sdkSettings, sdkRegistry, sdkCache,
                   sdkFactoryCalls, sdkObtained, sdkClients, sdkOps,
                   sdkLogger, sdkExpected, retryVars, validateVars>>

SdkInit ==
    /\ sdkVariant \in SdkVariants
    /\ sdkSettings \in SettingsSamples
    /\ sdkRegistry \in RegistrySamples
    /\ sdkCache = [p \in Providers |-> 0]
    /\ sdkFactoryCalls = [p \in Providers |-> 0]
    /\ sdkObtained = [p \in Providers |-> <<>>]
    /\ sdkClients = 0
    /\ sdkOps = 0
    /\ sdkOp = NoOp
    /\ sdkLogger \in BOOLEAN
    /\ sdkExpected = NoExpectation

SdkParked ==
    /\ sdkVariant = "sync"
    /\ sdkSettings = SDKSettings("p1", "m1")
    /\ sdkRegistry = [p \in Providers |-> FullEntry]
    /\ sdkCache = [p \in Providers |-> 0]
    /\ sdkFactoryCalls = [p \in Providers |-> 0]
    /\ sdkObtained = [p \in Providers |-> <<>>]
    /\ sdkClients = 0
    /\ sdkOps = 0
    /\ sdkOp = NoOp
    /\ sdkLogger = TRUE
    /\ sdkExpected = NoExpectation

(***************************************************************************)
(* LLM._get_client called by several threads on one LLM instance:          *)
(*     cached = self._clients.get(provider)                                *)
(*     if cached is not None: return cached                                *)
(*     spec = self.registry.get(provider)                                  *)
(*     client = spec.factory()                                             *)
(*     self._clients[provider] = client                                    *)
(*     return client                                                       *)
(* The method takes no lock, so the threads interleave between the lookup, *)
(* the factory call and the store.  Every provider is registered and its   *)
(* factory returns a new client on each call.                              *)
(***************************************************************************)
Threads == 1..MaxThreads

\* `cached = self._clients.get(provider)` and the test of it, by a thread
\* that makes its first call.
ThreadLookup(t, provider) ==
    /\ thPc[t] = "idle"
    /\ thProvider' = [thProvider EXCEPT ![t] = provider]
    /\ IF thCache[provider] # 0
       THEN /\ thClient' = [thClient EXCEPT ![t] = thCache[provider]]
            /\ thPc' = [thPc EXCEPT ![t] = "done"]
       ELSE /\ thPc' = [thPc EXCEPT ![t] = "missed"]
            /\ UNCHANGED thClient
    /\ UNCHANGED <<thCache, thFactoryCalls, thClients>>

\* `spec = self.registry.get(provider); client = spec.factory()`
ThreadCreate(t) ==
    /\ thPc[t] = "missed"
    /\ thFactoryCalls' = [thFactoryCalls EXCEPT ![thProvider[t]] = @ + 1]
    /\ thClients' = thClients + 1
    /\ thClient' = [thClient EXCEPT ![t] = thClients + 1]
    /\ thPc' = [thPc EXCEPT ![t] = "created"]
    /\ UNCHANGED <<thProvider, thCache>>

\* `self._clients[provider] = client; return client`
ThreadStore(t) ==
    /\ thPc[t] = "created"
    /\ thCache' = [thCache EXCEPT ![thProvider[t]] = thClient[t]]
    /\ thPc' = [thPc EXCEPT ![t] = "done"]
    /\ UNCHANGED <<thProvider, thClient, thFactoryCalls, thClients>>

ThreadsInit ==
    /\ thPc = [t \in Threads |-> "idle"]
    /\ thProvider = [t \in Threads |-> ""]
    /\ thClient = [t \in Threads |-> 0]
    /\ thCache = [p \in Providers |-> 0]
    /\ thFactoryCalls = [p \in Providers |-> 0]
    /\ thClients = 0

(***************************************************************************)
(* AsyncResourceManager: the cache of clients and its shutdown.            *)
(*     for c in self._clients.values():                                    *)
(*         await c.aclose()                                                *)
(*     self._clients.clear()                                               *)
(* _clients is a dict: it keeps insertion order, assigning to a key that   *)
(* is present replaces the value in place, and its iterator raises         *)
(* RuntimeError when the dict has changed size since the iteration began.  *)
(* Each `await` lets other tasks run.                                      *)
(***************************************************************************)
ClientNames == {"p1", "p2", "p3"}

\* What a client's aclose() does.
CloseBehaviours == {"ok", "raises"}

\* A cached client: its key, its identity and what its aclose() does.
CachedClient(name, id, behaviour) ==
    [name |-> name, id |-> id, aclose |-> behaviour]

\* Position of the key in the dict, 0 when absent.
KeyIndex(clients, name) ==
    IF \E i \in 1..Len(clients) : clients[i].name = name
    THEN CHOOSE i \in 1..Len(clients) : clients[i].name = name
    ELSE 0

\* get_cached(provider): the client, or <<>> for None.
get_cached(clients, provider) ==
    IF KeyIndex(clients, provider) = 0 THEN None
    ELSE Some(clients[KeyIndex(clients, provider)])

\* `self._clients[provider] = client`
DictAssign(clients, client) ==
    IF KeyIndex(clients, client.name) = 0
    THEN Append(clients, client)
    ELSE [clients EXCEPT ![KeyIndex(clients, client.name)] = client]

\* set_cached(provider, client), by a task that runs while no aclose is
\* under way, or while one is suspended in the `await c.aclose()` of the
\* client it took last; before its first await aclose is not suspended.
set_cached ==
    \E name \in ClientNames, behaviour \in CloseBehaviours :
        /\ cmMade < MaxClients
        /\ cmState = "CLOSING" => cmPos >= 1
        /\ cmMade' = cmMade + 1
        /\ cmClients' = DictAssign(cmClients,
                                   CachedClient(name, cmMade + 1, behaviour))
        /\ cmDisturbed' = (cmDisturbed \/ cmState = "CLOSING")
        /\ UNCHANGED <<cmState, cmPos, cmSize, cmTargets, cmAttempted,
                       cmClosed, cmCloseCount, cmCloses>>

\* aclose() is called (directly, or by lifespan's `finally`): the iterator
\* over self._clients.values() is created.
AcloseStart ==
    /\ cmState \in {"IDLE", "RETURNED", "RAISED"}
    /\ cmCloses < MaxCloses
    /\ cmCloses' = cmCloses + 1
    /\ cmState' = "CLOSING"
    /\ cmPos' = 0
    /\ cmSize' = Len(cmClients)
    /\ cmTargets' = {cmClients[i].id : i \in 1..Len(cmClients)}
    /\ cmAttempted' = {}
    /\ cmDisturbed' = FALSE
    /\ UNCHANGED <<cmClients, cmClosed, cmCloseCount, cmMade>>

\* The dict changed size since the iterator was created.
ChangedSize == Len(cmClients) # cmSize

\* The iterator raises RuntimeError, which aclose does not catch.
AcloseIterationFails ==
    /\ cmState = "CLOSING"
    /\ ChangedSize
    /\ cmState' = "RAISED"
    /\ UNCHANGED <<cmClients, cmPos, cmSize, cmTargets, cmAttempted,
                   cmClosed, cmCloseCount, cmCloses, cmMade, cmDisturbed>>

\* One iteration: the next client is taken and `await c.aclose()` runs.
\* The loop has no try/except: what c.aclose() raises leaves aclose.
AcloseClient ==
    /\ cmState = "CLOSING"
    /\ ~ChangedSize
    /\ cmPos < Len(cmClients)
    /\ LET c == cmClients[cmPos + 1]
       IN  /\ cmAttempted' = cmAttempted \cup {c.id}
           /\ cmPos' = cmPos + 1
           /\ IF c.aclose = "ok"
              THEN /\ cmClosed' = cmClosed \cup {c.id}
                   /\ cmCloseCount' = [cmCloseCount EXCEPT ![c.id] = @ + 1]
                   /\ UNCHANGED cmState
              ELSE /\ cmState' = "RAISED"
                   /\ UNCHANGED <<cmClosed, cmCloseCount>>
    /\ UNCHANGED <<cmClients, cmSize, cmTargets, cmCloses, cmMade, cmDisturbed>>

\* The iterator is exhausted: `self._clients.clear()` and return.
AcloseClear ==
    /\ cmState = "CLOSING"
    /\ ~ChangedSize
    /\ cmPos = Len(cmClients)
    /\ cmClients' = <<>>
    /\ cmState' = "RETURNED"
    /\ UNCHANGED <<cmPos, cmSize, cmTargets, cmAttempted, cmClosed,
                   cmCloseCount, cmCloses, cmMade, cmDisturbed>>

CloseInit ==
    /\ cmClients = <<>>
    /\ cmState = "IDLE"
    /\ cmPos = 0
    /\ cmSize = 0
    /\ cmTargets = {}
    /\ cmAttempted = {}
    /\ cmClosed = {}
    /\ cmCloseCount = [id \in 1..MaxClients |-> 0]
    /\ cmCloses = 0
    /\ cmMade = 0
    /\ cmDisturbed = FALSE

(***************************************************************************)
(* Loading of provider plugins from the entry points of the group          *)
(* "llm_sdk.providers": load_provider_plugins of plugin_loader.py and      *)
(* ProviderRegistry.load_plugins of providers/async_registry.py.           *)
(***************************************************************************)
PluginLoaders == {"load_provider_plugins", "ProviderRegistry.load_plugins"}

PluginNames == {"a", "b"}

\* What an installed plugin does: it loads and registers; ep.load() raises;
\* the loaded object is not callable; the loaded callable raises when it is
\* called to register (fn(registry, settings), or factory_cls() and
\* factory.spec()).  The exceptions are subclasses of Exception.
PluginBehaviours == {"ok", "load_raises", "not_callable", "register_raises"}

EntryPoint(name, behaviour) == [name |-> name, behaviour |-> behaviour]

EntryPoints == {EntryPoint(n, b) : n \in PluginNames, b \in PluginBehaviours}

\* failed[ep.name] is absent.
NoError == ""

\* repr(e) of the exception a plugin raises, and the text for an entry
\* point that is not callable.
ErrorText(behaviour) ==
    CASE behaviour = "load_raises" -> "ImportError('no module')"
      [] behaviour = "not_callable" -> "entrypoint is not callable"
      [] behaviour = "register_raises" -> "RuntimeError('register failed')"

\* The loader is called: `eps = entry_points().select(group=...)`,
\* `loaded = []`, `failed = {}`.
PluginsStart ==
    /\ plState = "IDLE"
    /\ plState' = "LOADING"
    /\ UNCHANGED <<plLoader, plEps, plPos, plLoaded, plFailed, plRegistered>>

\* One iteration of the loop of load_provider_plugins, with its
\* try/except Exception.
LoadEntryPoint ==
    /\ plLoader = "load_provider_plugins"
    /\ plState = "LOADING"
    /\ plPos < Len(plEps)
    /\ plPos' = plPos + 1
    /\ LET ep == plEps[plPos + 1]
       IN  IF ep.behaviour = "ok"
           THEN /\ plRegistered' = plRegistered \cup {ep.name}
                /\ plLoaded' = Append(plLoaded, ep.name)
                /\ UNCHANGED plFailed
           ELSE /\ plFailed' = [plFailed EXCEPT
                                   ![ep.name] = ErrorText(ep.behaviour)]
                /\ UNCHANGED <<plRegistered, plLoaded>>
    /\ UNCHANGED <<plLoader, plEps, plState>>

\* One iteration of the loop of ProviderRegistry.load_plugins:
\*     factory_cls = ep.load(); factory = factory_cls()
\*     spec = factory.spec(); self._factories[spec.name] = factory
\* Nothing catches what these raise; the method keeps no record.
RegistryLoadEntryPoint ==
    /\ plLoader = "ProviderRegistry.load_plugins"
    /\ plState = "LOADING"
    /\ plPos < Len(plEps)
    /\ plPos' = plPos + 1
    /\ LET ep == plEps[plPos + 1]
       IN  IF ep.behaviour = "ok"
           THEN /\ plRegistered' = plRegistered \cup {ep.name}
                /\ UNCHANGED plState
           ELSE /\ plState' = "RAISED"
                /\ UNCHANGED plRegistered
    /\ UNCHANGED <<plLoader, plEps, plLoaded, plFailed>>

\* The loop is over: `return PluginLoadResult(loaded=loaded, failed=failed)`
\* / the implicit return of load_plugins.
PluginsReturn ==
    /\ plState = "LOADING"
    /\ plPos = Len(plEps)
    /\ plState' = "RETURNED"
    /\ UNCHANGED <<plLoader, plEps, plPos, plLoaded, plFailed, plRegistered>>

PluginsIdle ==
    /\ plPos = 0
    /\ plLoaded = <<>>
    /\ plFailed = [n \in PluginNames |-> NoError]
    /\ plRegistered = {}
    /\ plState = "IDLE"

PluginsInit ==
    /\ plLoader \in PluginLoaders
    /\ plEps \in UNION {[1..n -> EntryPoints] : n \in 0..MaxPlugins}
    /\ PluginsIdle

PluginsParked ==
    /\ plLoader = "load_provider_plugins"
    /\ plEps = <<>>
    /\ PluginsIdle

(***************************************************************************)
(* client.embed(request) of the providers.  AsyncLLM.embed and LLM.embed   *)
(* return the client's EmbeddingResponse unchanged.  The request has       *)
(* passed validate_embed: its input is a non-empty list of non-blank       *)
(* strings.  Vector components are kept in tenths.                         *)
(***************************************************************************)
EmbedClients == {"noop", "gemini"}

TextSamples == {<<"a">>, <<"a", "b">>}

\* ord(c) for the characters of the samples.
ord(c) == IF c = "a" THEN 97 ELSE 98

\* AsyncNoopLLMClient.embed / NoopLLMClient.embed:
\*     vec = [float((ord(c) % 10)) / 10.0 for c in text[:16]]
NoopVector(text) == [i \in 1..Len(text) |-> ord(text[i]) % 10]

NoopVectors(input) == [i \in 1..Len(input) |-> NoopVector(input[i])]

\* One element of resp.embeddings of the google-genai response: its
\* attributes `values` and `embedding`, each None or a list of floats.
Embedding(values, embedding) == [values |-> values, embedding |-> embedding]

EmbeddingSamples ==
    { Embedding(Some(<<1, 2>>), None),
      Embedding(None, Some(<<3>>)),
      Embedding(None, None) }

\* What embed_content does: it raises, or it returns a response with the
\* attributes `embeddings` (None or a list) and `values` (None or a list of
\* floats).
GeminiResponse(raises, embeddings, values) ==
    [raises |-> raises, embeddings |-> embeddings, values |-> values]

NoResponse == GeminiResponse(FALSE, None, None)

GeminiResponses ==
    {GeminiResponse(TRUE, None, None)} \cup
    { GeminiResponse(FALSE, es, v) :
        es \in {None} \cup
               {Some(l) : l \in UNION {[1..n -> EmbeddingSamples] :
                                          n \in 0..MaxInputs}},
        v \in {None, Some(<<4>>)} }

\* `values = getattr(e, "values", None)`; `if values is None: values =
\* getattr(e, "embedding", None)`; `list(values or [])`
EmbeddingValues(e) ==
    LET values == IF e.values # None THEN e.values ELSE e.embedding
    IN  IF Truthy(values) THEN values[1] ELSE <<>>

\* AsyncGeminiLLMClient._extract_embeddings(resp)
_extract_embeddings(resp) ==
    IF Truthy(resp.embeddings)
    THEN [i \in 1..Len(resp.embeddings[1]) |->
             EmbeddingValues(resp.embeddings[1][i])]
    ELSE IF Truthy(resp.values) THEN <<resp.values[1]>>
    ELSE <<>>

\* AsyncNoopLLMClient.embed(request)
NoopEmbed ==
    /\ eState = "IDLE"
    /\ eClient = "noop"
    /\ eVectors' = NoopVectors(eInput)
    /\ eState' = "RETURNED"
    /\ UNCHANGED <<eClient, eInput, eResponse>>

\* AsyncGeminiLLMClient.embed(request): an exception of embed_content is
\* turned into ProviderError, a response into EmbeddingResponse.
GeminiEmbed ==
    /\ eState = "IDLE"
    /\ eClient = "gemini"
    /\ IF eResponse.raises
       THEN /\ eState' = "RAISED"
            /\ UNCHANGED eVectors
       ELSE /\ eState' = "RETURNED"
            /\ eVectors' = _extract_embeddings(eResponse)
    /\ UNCHANGED <<eClient, eInput, eResponse>>

EmbedIdle ==
    /\ eVectors = <<>>
    /\ eState = "IDLE"

EmbedInit ==
    /\ eClient \in EmbedClients
    /\ eInput \in UNION {[1..n -> TextSamples] : n \in 1..MaxInputs}
    /\ eResponse \in IF eClient = "gemini" THEN GeminiResponses
                                          ELSE {NoResponse}
    /\ EmbedIdle

EmbedParked ==
    /\ eClient = "noop"
    /\ eInput = <<>>
    /\ eResponse = NoResponse
    /\ EmbedIdle

(***************************************************************************)
(* compute_delay of RetryPolicy (sync/retries.py) and of AsyncRetryPolicy  *)
(* (async_retries.py).  Delays are kept in units of a quarter second, so   *)
(* the defaults base_delay_s = 0.25 and max_delay_s = 3.0 are 1 and 12;    *)
(* random.uniform(a, b) is any value from a to b.                          *)
(***************************************************************************)
RECURSIVE Pow2(_)
Pow2(n) == IF n = 0 THEN 1 ELSE 2 * Pow2(n - 1)

Min(a, b) == IF a <= b THEN a ELSE b

\* RetryPolicy.compute_delay: `exp = min(max_delay_s, base_delay_s *
\* (2 ** attempt - 1))`, attempt counted from 0.
SyncExp(base, max, attempt) == Min(max, base * (Pow2(attempt) - 1))

\* AsyncRetryPolicy.compute_delay: `exp = min(max_delay_s, base_delay_s *
\* (2 ** (attempt - 1)))`, attempt counted from 1.
AsyncExp(base, max, attempt) == Min(max, base * Pow2(attempt - 1))

\* The first attempt number of each policy's engine.
FirstAttempt(mode) == IF mode = "sync" THEN 0 ELSE 1

\* The values RetryPolicy.compute_delay(attempt) can return:
\*     jitter = random.uniform(0, self.base_delay_s); return exp + jitter
SyncDelays(base, max, attempt) ==
    {SyncExp(base, max, attempt) + jitter : jitter \in 0..base}

\* The values AsyncRetryPolicy.compute_delay(attempt) can return:
\*     jitter = random.uniform(0, exp); return jitter
AsyncDelays(base, max, attempt) == 0..AsyncExp(base, max, attempt)

\* RetryPolicy.compute_delay(attempt)
SyncComputeDelay ==
    /\ dState = "IDLE"
    /\ dMode = "sync"
    /\ \E delay \in SyncDelays(dBase, dMax, dAttempt) : dDelay' = delay
    /\ dState' = "RETURNED"
    /\ UNCHANGED <<dMode, dBase, dMax, dAttempt>>

\* AsyncRetryPolicy.compute_delay(attempt)
AsyncComputeDelay ==
    /\ dState = "IDLE"
    /\ dMode = "async"
    /\ \E delay \in AsyncDelays(dBase, dMax, dAttempt) : dDelay' = delay
    /\ dState' = "RETURNED"
    /\ UNCHANGED <<dMode, dBase, dMax, dAttempt>>

DelayIdle ==
    /\ dDelay = 0
    /\ dState = "IDLE"

DelayInit ==
    /\ dMode \in RetryModes
    /\ dBase \in 0..MaxBaseDelay
    /\ dMax \in 0..MaxDelayCap
    /\ dAttempt \in FirstAttempt(dMode)..(FirstAttempt(dMode) + MaxRetryNumber)
    /\ DelayIdle

DelayParked ==
    /\ dMode = "sync"
    /\ dBase = 0
    /\ dMax = 0
    /\ dAttempt = 0
    /\ DelayIdle

(***************************************************************************)
(* The provider registries: ProviderRegistry of providers/sync_registry.py *)
(* (register, get, list_providers over _providers) and ProviderRegistry of *)
(* providers/async_registry.py (get, available over _factories, filled by  *)
(* the loop of load_plugins with `self._factories[spec.name] = factory`).  *)
(***************************************************************************)
RegistryKinds == {"sync_registry", "async_registry"}

\* The provider names, in sorted order.
RegistryNames == <<"p1", "p2", "p3">>

NameSet == {RegistryNames[i] : i \in DOMAIN RegistryNames}

\* What is stored under a name: a ProviderSpec (a factory, for the async
\* registry) with that name; `version` tells two of them apart.
RegEntry(name, version) == [name |-> name, version |-> version]

RegEntries == {RegEntry(n, v) : n \in NameSet, v \in {"v1", "v2"}}

\* sorted(self._providers.keys()) / sorted(self._factories.keys())
SortedKeys(entries) ==
    SelectSeq(RegistryNames, LAMBDA n : entries[n] # None)

\* What an operation of the registry returned or raised.
RegResult(kind, entry, message) ==
    [kind |-> kind, entry |-> entry, message |-> message]

\* sync: f"Provider not registered: {name}"
SyncNotFoundMessage(name) ==
    [text |-> "Provider not registered: ", name |-> name, available |-> None]

\* async: f"Unknown provider '{name}'. Available: {available}"
AsyncNotFoundMessage(name, entries) ==
    [text |-> "Unknown provider. Available: ", name |-> name,
     available |-> Some(SortedKeys(entries))]

\* ProviderRegistry.get(name) of the two registries.
RegistryGet(kind, entries, name) ==
    IF entries[name] # None
    THEN RegResult("return", entries[name], None)
    ELSE IF kind = "sync_registry"
    THEN RegResult("ProviderNotFoundError", None,
                   Some(SyncNotFoundMessage(name)))
    ELSE RegResult("KeyError", None, Some(AsyncNotFoundMessage(name, entries)))

\* Mutant: an entry is stored only under a name that is still free.
DictStore_FirstWins(entries, entry) ==
    IF entries[entry.name] # None THEN entries
    ELSE [entries EXCEPT ![entry.name] = Some(entry)]

\* `self._providers[spec.name] = spec` / `self._factories[spec.name] = factory`
DictStore(entries, entry) == [entries EXCEPT ![entry.name] = Some(entry)]

\* The last operation: what it was, its argument, the registry before it
\* and its result.
RegOp(op, name, entry, before, result) ==
    [op |-> op, name |-> name, entry |-> entry, before |-> before,
     result |-> result]

NoRegOp == RegOp("none", "", None, <<>>, RegResult("none", None, None))

\* ProviderRegistry.register(spec); in the async registry, one iteration of
\* the loop of load_plugins.
RegistryRegister ==
    \E entry \in RegEntries :
        /\ regEntries' = DictStore(regEntries, entry)
        /\ regLast' = RegOp("register", entry.name, Some(entry), regEntries,
                            RegResult("return", None, None))
        /\ UNCHANGED regKind

\* ProviderRegistry.get(name)
RegistryGetCall ==
    \E name \in NameSet :
        /\ regLast' = RegOp("get", name, None, regEntries,
                            RegistryGet(regKind, regEntries, name))
        /\ UNCHANGED <<regKind, regEntries>>

EmptyRegistry == [n \in NameSet |-> None]

RegistryInit ==
    /\ regKind \in RegistryKinds
    /\ regEntries = EmptyRegistry
    /\ regLast = NoRegOp

RegistryParked ==
    /\ regKind = "sync_registry"
    /\ regEntries = EmptyRegistry
    /\ regLast = NoRegOp

(***************************************************************************)
(* TokenTracker of core/tokens.py, used by several threads.  Each thread   *)
(* constructs TokenTracker(config) or TokenTracker() and then calls        *)
(* add_usage and reset.  A step is one statement (one load or store of an  *)
(* attribute where the statement has two); the TokenUsage and Lock objects *)
(* are numbered in the order of their creation.  Of a TokenUsage the model *)
(* keeps total_tokens and the token_count of its history items.            *)
(***************************************************************************)
TrackerThreads == 1..MaxTrackerThreads

\* The TokenUsage objects that can be created: one by each __init__, one by
\* each reset.
CacheIds == 1..(MaxTrackerThreads + MaxResets)

TokenCounts == {1, 2}

RECURSIVE Sum(_)
Sum(seq) == IF seq = <<>> THEN 0 ELSE Head(seq) + Sum(Tail(seq))

\* __new__: `with cls._lock:` creates the instance, with _initialized =
\* False, if there is none yet; every caller gets that instance.
TrackerNew(t) ==
    /\ tkPc[t] = "start"
    /\ tkPc' = [tkPc EXCEPT ![t] = "new"]
    /\ tkInstances' = IF tkInstances = 0 THEN 1 ELSE tkInstances
    /\ UNCHANGED <<tkConfig, tkInitialized, tkInits, tkLock, tkLocks, tkHeld,
                   tkMyLock, tkCache, tkCaches, tkTotal, tkHistory, tkRef,
                   tkVal, tkCount, tkAdded, tkAdds, tkResets>>

\* __init__: `if self._initialized: return`, then `if config is None: raise
\* ValueError(...)`.
TrackerInitCheck(t) ==
    /\ tkPc[t] = "new"
    /\ tkPc' = [tkPc EXCEPT ![t] = IF tkInitialized THEN "ready"
                                  ELSE IF ~tkConfig[t] THEN "failed"
                                  ELSE "init_lock"]
    /\ tkInits' = IF ~tkInitialized /\ tkConfig[t] THEN tkInits + 1 ELSE tkInits
    /\ UNCHANGED <<tkConfig, tkInstances, tkInitialized, tkLock, tkLocks,
                   tkHeld, tkMyLock, tkCache, tkCaches, tkTotal, tkHistory,
                   tkRef, tkVal, tkCount, tkAdded, tkAdds, tkResets>>

\* __init__: `self._data_lock = Lock()`
TrackerInitLock(t) ==
    /\ tkPc[t] = "init_lock"
    /\ tkPc' = [tkPc EXCEPT ![t] = "init_cache"]
    /\ tkLocks' = tkLocks + 1
    /\ tkLock' = tkLocks + 1
    /\ UNCHANGED <<tkConfig, tkInstances, tkInitialized, tkInits, tkHeld,
                   tkMyLock, tkCache, tkCaches, tkTotal, tkHistory, tkRef,
                   tkVal, tkCount, tkAdded, tkAdds, tkResets>>

\* _init_cache: `self.cache = TokenUsage(model=self._model)`
NewCache ==
    /\ tkCaches' = tkCaches + 1
    /\ tkCache' = tkCaches + 1

\* __init__: `self._init_cache()`
TrackerInitCache(t) ==
    /\ tkPc[t] = "init_cache"
    /\ tkPc' = [tkPc EXCEPT ![t] = "init_flag"]
    /\ NewCache
    /\ UNCHANGED <<tkConfig, tkInstances, tkInitialized, tkInits, tkLock,
                   tkLocks, tkHeld, tkMyLock, tkTotal, tkHistory, tkRef,
                   tkVal, tkCount, tkAdded, tkAdds, tkResets>>

\* __init__: `self._initialized = True`
TrackerInitDone(t) ==
    /\ tkPc[t] = "init_flag"
    /\ tkPc' = [tkPc EXCEPT ![t] = "ready"]
    /\ tkInitialized' = TRUE
    /\ UNCHANGED <<tkConfig, tkInstances, tkInits, tkLock, tkLocks, tkHeld,
                   tkMyLock, tkCache, tkCaches, tkTotal, tkHistory, tkRef,
                   tkVal, tkCount, tkAdded, tkAdds, tkResets>>

\* `with self._data_lock:` is entered: the Lock object the attribute holds
\* now is acquired.
Acquire(t) ==
    /\ tkLock \notin tkHeld
    /\ tkHeld' = tkHeld \cup {tkLock}
    /\ tkMyLock' = [tkMyLock EXCEPT ![t] = tkLock]

\* The with block is left.
Release(t) ==
    /\ tkHeld' = tkHeld \ {tkMyLock[t]}
    /\ tkMyLock' = [tkMyLock EXCEPT ![t] = 0]

\* add_usage(token_count, token_type) with a known token type, up to the
\* entry of `with self._data_lock:`.
AddUsageStart(t) ==
    \E count \in TokenCounts :
        /\ tkPc[t] = "ready"
        /\ tkAdds < MaxAdds
        /\ tkAdds' = tkAdds + 1
        /\ Acquire(t)
        /\ tkCount' = [tkCount EXCEPT ![t] = count]
        /\ tkPc' = [tkPc EXCEPT ![t] = "add_read"]
        /\ UNCHANGED <<tkConfig, tkInstances, tkInitialized, tkInits, tkLock,
                       tkLocks, tkCache, tkCaches, tkTotal, tkHistory, tkRef,
                       tkVal, tkAdded, tkResets>>

\* `self.cache.total_tokens += token_count`: the object and its total are
\* loaded.
AddUsageRead(t) ==
    /\ tkPc[t] = "add_read"
    /\ tkPc' = [tkPc EXCEPT ![t] = "add_write"]
    /\ tkRef' = [tkRef EXCEPT ![t] = tkCache]
    /\ tkVal' = [tkVal EXCEPT ![t] = tkTotal[tkCache]]
    /\ UNCHANGED <<tkConfig, tkInstances, tkInitialized, tkInits, tkLock,
                   tkLocks, tkHeld, tkMyLock, tkCache, tkCaches, tkTotal,
                   tkHistory, tkCount, tkAdded, tkAdds, tkResets>>

\* `self.cache.total_tokens += token_count`: the sum is stored into the
\* object that was loaded.
AddUsageWrite(t) ==
    /\ tkPc[t] = "add_write"
    /\ tkPc' = [tkPc EXCEPT ![t] = "add_history"]
    /\ tkTotal' = [tkTotal EXCEPT ![tkRef[t]] = tkVal[t] + tkCount[t]]
    /\ tkAdded' = tkAdded + tkCount[t]
    /\ UNCHANGED <<tkConfig, tkInstances, tkInitialized, tkInits, tkLock,
                   tkLocks, tkHeld, tkMyLock, tkCache, tkCaches, tkHistory,
                   tkRef, tkVal, tkCount, tkAdds, tkResets>>

\* `self.cache.history.append(HistoryItem(...))`, then the with block is
\* left.
AddUsageHistory(t) ==
    /\ tkPc[t] = "add_history"
    /\ tkPc' = [tkPc EXCEPT ![t] = "ready"]
    /\ tkHistory' = [tkHistory EXCEPT ![tkCache] = Append(@, tkCount[t])]
    /\ Release(t)
    /\ UNCHANGED <<tkConfig, tkInstances, tkInitialized, tkInits, tkLock,
                   tkLocks, tkCache, tkCaches, tkTotal, tkRef, tkVal, tkCount,
                   tkAdded, tkAdds, tkResets>>

\* reset(): `with self._data_lock:` is entered.
ResetStart(t) ==
    /\ tkPc[t] = "ready"
    /\ tkResets < MaxResets
    /\ tkResets' = tkResets + 1
    /\ Acquire(t)
    /\ tkPc' = [tkPc EXCEPT ![t] = "reset_body"]
    /\ UNCHANGED <<tkConfig, tkInstances, tkInitialized, tkInits, tkLock,
                   tkLocks, tkCache, tkCaches, tkTotal, tkHistory, tkRef,
                   tkVal, tkCount, tkAdded, tkAdds>>

\* reset(): `snapshot = self.cache; self._init_cache(); return snapshot`
ResetBody(t) ==
    /\ tkPc[t] = "reset_body"
    /\ tkPc' = [tkPc EXCEPT ![t] = "ready"]
    /\ NewCache
    /\ tkAdded' = 0
    /\ Release(t)
    /\ UNCHANGED <<tkConfig, tkInstances, tkInitialized, tkInits, tkLock,
                   tkLocks, tkTotal, tkHistory, tkRef, tkVal, tkCount, tkAdds,
                   tkResets>>

TokensIdle ==
    /\ tkPc = [t \in TrackerThreads |-> "start"]
    /\ tkInstances = 0
    /\ tkInitialized = FALSE
    /\ tkInits = 0
    /\ tkLock = 0
    /\ tkLocks = 0
    /\ tkHeld = {}
    /\ tkMyLock = [t \in TrackerThreads |-> 0]
    /\ tkCache = 0
    /\ tkCaches = 0
    /\ tkTotal = [c \in CacheIds |-> 0]
    /\ tkHistory = [c \in CacheIds |-> <<>>]
    /\ tkRef = [t \in TrackerThreads |-> 0]
    /\ tkVal = [t \in TrackerThreads |-> 0]
    /\ tkCount = [t \in TrackerThreads |-> 0]
    /\ tkAdded = 0
    /\ tkAdds = 0
    /\ tkResets = 0

\* The class has just been imported: _instance is None.  Which threads pass
\* a config is an input.
TokensInit ==
    /\ tkConfig \in [TrackerThreads -> BOOLEAN]
    /\ TokensIdle

TokensParked ==
    /\ tkConfig = [t \in TrackerThreads |-> TRUE]
    /\ TokensIdle

(***************************************************************************)
(* One AsyncLLM used by several coroutines of one event loop, all calling  *)
(* chat for the same registered provider, and one task that calls          *)
(* AsyncLLM.aclose.  A coroutine runs from one `await` that suspends it to *)
(* the next without any other coroutine running in between; coRunning is   *)
(* the coroutine that has the loop, 0 when every task is suspended, not    *)
(* yet started or finished.  Awaiting a coroutine function that contains   *)
(* no `await` itself, as _get_provider_client, does not suspend.           *)
(***************************************************************************)
Coroutines == 1..MaxCoroutines

\* The places where a chat call is suspended: in `await client.chat(req)`
\* (the `await fn()` of with_async_retries) and in `await asyncio.sleep(...)`.
SuspendsAt(pc) == pc \in {"calling", "sleeping"}

\* The coroutine gives the loop away: it is suspended or it has ended.
Yields(pc) == SuspendsAt(pc) \/ pc = "done"

\* Coroutine c may take its next step.
HasLoop(c) == coRunning \in {0, c}

\* The step of c that leads to pc.
CoGoes(c, pc) ==
    /\ coPc' = [coPc EXCEPT ![c] = pc]
    /\ coRunning' = IF Yields(pc) THEN 0 ELSE c

\* chat(...) is called and runs up to `cached = self.resources.get_cached(
\* provider)` and `if cached is not None: return cached`.
CoLookup(c) ==
    /\ coPc[c] = "idle"
    /\ HasLoop(c)
    /\ IF coCache # 0
       THEN /\ coClient' = [coClient EXCEPT ![c] = coCache]
            /\ CoGoes(c, "obtained")
       ELSE /\ coClient' = coClient
            /\ CoGoes(c, "missed")
    /\ UNCHANGED <<coVariant, coMax, coAttempt, coCache, coFactoryCalls,
                   coClients, coClosed, coCloser, coClosing, coOnClosed>>

\* `factory = self.registry.get(provider); client = factory.create(
\* self.settings)` and the isinstance test, which passes.
CoCreate(c) ==
    /\ coPc[c] = "missed"
    /\ HasLoop(c)
    /\ coFactoryCalls' = coFactoryCalls + 1
    /\ coClients' = coClients + 1
    /\ coClient' = [coClient EXCEPT ![c] = coClients + 1]
    /\ CoGoes(c, "created")
    /\ UNCHANGED <<coVariant, coMax, coAttempt, coCache, coClosed, coCloser,
                   coClosing, coOnClosed>>

\* `self.resources.set_cached(provider, client); return client`, or, in
\* AsyncLLM of src/llm_sdk, `self.resources.get_cached(provider); return
\* client`.
CoStore(c) ==
    /\ coPc[c] = "created"
    /\ HasLoop(c)
    /\ coCache' = IF StoresClient(coVariant) THEN coClient[c] ELSE coCache
    /\ CoGoes(c, "obtained")
    /\ UNCHANGED <<coVariant, coMax, coAttempt, coClient, coFactoryCalls,
                   coClients, coClosed, coCloser, coClosing, coOnClosed>>

\* `await client.chat(req)` begins: the provider method is started on the
\* client the coroutine holds.
StartsProviderCall(c) ==
    coOnClosed' = (coOnClosed \/ coClient[c] \in coClosed)

\* `resp = await with_async_retries(fn=_call, provider=prov,
\* retry_policy=...)`: the engine is entered and the first `await fn()`
\* begins, or the call of the engine raises TypeError.
CoEnterRetries(c) ==
    /\ coPc[c] = "obtained"
    /\ HasLoop(c)
    /\ IF RetryCallBinds(coVariant)
       THEN /\ coAttempt' = [coAttempt EXCEPT ![c] = 1]
            /\ StartsProviderCall(c)
            /\ CoGoes(c, "calling")
       ELSE /\ UNCHANGED <<coAttempt, coOnClosed>>
            /\ CoGoes(c, "done")
    /\ UNCHANGED <<coVariant, coMax, coClient, coCache, coFactoryCalls,
                   coClients, coClosed, coCloser, coClosing>>

\* client.chat returns or raises and the coroutine is resumed: it returns,
\* re-raises, or begins `await asyncio.sleep(policy.compute_delay(attempt))`.
CoCallEnds(c) ==
    \E o \in Outcomes :
        /\ coPc[c] = "calling"
        /\ HasLoop(c)
        /\ IF o = "ok" \/ ~IsProviderError(o)
                       \/ AsyncReraises(o, coAttempt[c], coMax)
           THEN CoGoes(c, "done")
           ELSE CoGoes(c, "sleeping")
        /\ UNCHANGED <<coVariant, coMax, coAttempt, coClient, coCache,
                       coFactoryCalls, coClients, coClosed, coCloser,
                       coClosing, coOnClosed>>

\* The sleep ends: the loop goes on with the next attempt and `await fn()`
\* begins again.
CoWake(c) ==
    /\ coPc[c] = "sleeping"
    /\ HasLoop(c)
    /\ coAttempt' = [coAttempt EXCEPT ![c] = @ + 1]
    /\ StartsProviderCall(c)
    /\ CoGoes(c, "calling")
    /\ UNCHANGED <<coVariant, coMax, coClient, coCache, coFactoryCalls,
                   coClients, coClosed, coCloser, coClosing>>

\* AsyncLLM.aclose -> AsyncResourceManager.aclose is called: with an empty
\* cache the loop runs no iteration and the cache is cleared; otherwise
\* `await c.aclose()` begins for the cached client.
CoAcloseStart ==
    /\ coCloser = "idle"
    /\ coRunning = 0
    /\ IF coCache = 0
       THEN /\ coCloser' = "done"
            /\ coClosing' = coClosing
       ELSE /\ coCloser' = "closing"
            /\ coClosing' = coCache
    /\ UNCHANGED <<coVariant, coMax, coPc, coAttempt, coClient, coRunning,
                   coCache, coFactoryCalls, coClients, coClosed, coOnClosed>>

\* c.aclose() returns: the client is closed, the iterator is exhausted (the
\* one key is still the only key) and `self._clients.clear()` runs.
CoAcloseEnds ==
    /\ coCloser = "closing"
    /\ coRunning = 0
    /\ coClosed' = coClosed \cup {coClosing}
    /\ coCache' = 0
    /\ coCloser' = "done"
    /\ UNCHANGED <<coVariant, coMax, coPc, coAttempt, coClient, coRunning,
                   coFactoryCalls, coClients, coClosing, coOnClosed>>

CoroutinesIdle ==
    /\ coPc = [c \in Coroutines |-> "idle"]
    /\ coAttempt = [c \in Coroutines |-> 0]
    /\ coClient = [c \in Coroutines |-> 0]
    /\ coRunning = 0
    /\ coCache = 0
    /\ coFactoryCalls = 0
    /\ coClients = 0
    /\ coClosed = {}
    /\ coCloser = "idle"
    /\ coClosing = 0
    /\ coOnClosed = FALSE

\* A fresh AsyncLLM of either package, with any retry policy.
CoroutinesInit ==
    /\ coVariant \in {"async_pkg", "async_src"}
    /\ coMax \in 1..MaxAttempts
    /\ CoroutinesIdle

CoroutinesParked ==
    /\ coVariant = "async_pkg"
    /\ coMax = 1
    /\ CoroutinesIdle

(***************************************************************************)
(* The retry engines as functions of the policy and of what the            *)
(* successive invocations do.                                              *)
(***************************************************************************)
\* How a run of the engine ends: invocations made, sleeps made, and the
\* result returned or the error raised.
RunResult(calls, sleeps, outcome) ==
    [calls |-> calls, sleeps |-> sleeps, outcome |-> outcome]

\* Outcome of the i-th invocation under a plan.
PlanAt(plan, i) == IF i \in DOMAIN plan THEN plan[i] ELSE "ok"

\* with_retries run to its end, from the loop head with `attempt`.
RECURSIVE SyncLoop(_, _, _, _, _, _)
SyncLoop(max, plan, attempt, calls, sleeps, last) ==
    IF ~SyncLoopContinues(attempt, max)
    THEN RunResult(calls, sleeps, SyncTimeoutError(rProvider, last))
    ELSE LET i == calls + 1
             o == PlanAt(plan, i)
         IN  IF o = "ok" THEN RunResult(i, sleeps, Returned(i))
             ELSE IF ~IsProviderError(o)
             THEN RunResult(i, sleeps, OtherError(i))
             ELSE IF SyncReraises(o)
             THEN RunResult(i, sleeps, ProviderError(i))
             ELSE SyncLoop(max, plan, attempt + 1, i, sleeps + 1, i)

with_retries(max, plan) == SyncLoop(max, plan, 0, 0, 0, 0)

\* with_async_retries run to its end, from the loop head with `attempt`.
RECURSIVE AsyncLoop(_, _, _, _, _, _)
AsyncLoop(max, plan, attempt, calls, sleeps, last) ==
    IF ~AsyncLoopContinues(attempt, max)
    THEN RunResult(calls, sleeps, AsyncTimeoutError(rProvider, last))
    ELSE LET i == calls + 1
             o == PlanAt(plan, i)
         IN  IF o = "ok" THEN RunResult(i, sleeps, Returned(i))
             ELSE IF ~IsProviderError(o)
             THEN RunResult(i, sleeps, OtherError(i))
             ELSE IF AsyncReraises(o, attempt, max)
             THEN RunResult(i, sleeps, ProviderError(i))
             ELSE AsyncLoop(max, plan, attempt + 1, i, sleeps + 1, i)

with_async_retries(max, plan) == AsyncLoop(max, plan, 1, 0, 0, 0)

(***************************************************************************)
(* What the retry engines read of the exception the operation raises:      *)
(* `except ProviderError as e` tests its class and `e.is_retryable` its    *)
(* flag.  Two runs of one engine under one policy are set side by side,    *)
(* the second on the outcomes of the first with the provider, message and  *)
(* status_code of one ProviderError changed.                               *)
(***************************************************************************)
\* ProviderError(provider, message, status_code, is_retryable)
RaisedProviderError(provider, message, status_code, flag) ==
    [kind |-> "ProviderError", provider |-> provider, message |-> message,
     status_code |-> status_code, is_retryable |-> flag]

\* The operation returns.
Returns ==
    [kind |-> "return", provider |-> "", message |-> "", status_code |-> 0,
     is_retryable |-> FALSE]

\* The operation raises an exception of another class, with a message.
RaisedOther(message) ==
    [kind |-> "ValueError", provider |-> "", message |-> message,
     status_code |-> 0, is_retryable |-> FALSE]

\* Provider, message and status_code of a ProviderError (0 = None): one
\* choice and three that differ from it in one field each.
ErrorDetails ==
    { <<"p1", "a", 429>>, <<"p2", "a", 429>>, <<"p1", "b", 429>>,
      <<"p1", "a", 0>> }

ErrorSamples ==
    {Returns, RaisedOther("a")}
    \cup {RaisedProviderError(d[1], d[2], d[3], flag) :
              d \in ErrorDetails, flag \in BOOLEAN}

\* Mutant: the engine decides by the HTTP status, not by the flag.
Classify_ByStatus(e) ==
    IF e.kind = "return" THEN "ok"
    ELSE IF e.kind # "ProviderError" THEN "other"
    ELSE IF e.status_code = 429 THEN "retryable"
    ELSE "fatal"

\* What the engine makes of one invocation: `return fn()` returns; `except
\* ProviderError as e` does not catch; `if not e.is_retryable: raise`
\* re-raises; or the engine goes on.
Classify(e) ==
    IF e.kind = "return" THEN "ok"
    ELSE IF e.kind # "ProviderError" THEN "other"
    ELSE IF e.is_retryable THEN "retryable"
    ELSE "fatal"

\* The outcomes as the engine tells them apart.
Classified(errors) == [i \in DOMAIN errors |-> Classify(errors[i])]

\* with_retries is run on both sequences of outcomes.
FlagSyncRun ==
    /\ fgState = "IDLE"
    /\ fgMode = "sync"
    /\ fgResult' = with_retries(fgMax, Classified(fgErrors))
    /\ fgTwinResult' = with_retries(fgMax, Classified(fgTwin))
    /\ fgState' = "DONE"
    /\ UNCHANGED <<fgMode, fgMax, fgErrors, fgTwin>>

\* with_async_retries is run on both sequences of outcomes.
FlagAsyncRun ==
    /\ fgState = "IDLE"
    /\ fgMode = "async"
    /\ fgResult' = with_async_retries(fgMax, Classified(fgErrors))
    /\ fgTwinResult' = with_async_retries(fgMax, Classified(fgTwin))
    /\ fgState' = "DONE"
    /\ UNCHANGED <<fgMode, fgMax, fgErrors, fgTwin>>

\* The sequence with provider, message and status_code of the error at
\* position k replaced, if that outcome is a ProviderError.
WithDetails(errors, k, d) ==
    IF errors[k].kind = "ProviderError"
    THEN [errors EXCEPT
              ![k] = RaisedProviderError(d[1], d[2], d[3], @.is_retryable)]
    ELSE errors

NoRun == RunResult(0, 0, NoOutcome)

FlagIdle ==
    /\ fgResult = NoRun
    /\ fgTwinResult = NoRun
    /\ fgState = "IDLE"

FlagInit ==
    /\ fgMode \in RetryModes
    /\ fgMax \in 1..MaxAttempts
    /\ fgErrors \in [1..MaxAttempts -> ErrorSamples]
    /\ \E k \in 1..MaxAttempts, d \in ErrorDetails :
           fgTwin = WithDetails(fgErrors, k, d)
    /\ FlagIdle

FlagParked ==
    /\ fgMode = "sync"
    /\ fgMax = 1
    /\ fgErrors = [i \in 1..MaxAttempts |-> Returns]
    /\ fgTwin = [i \in 1..MaxAttempts |-> Returns]
    /\ FlagIdle

(***************************************************************************)
(* Specifications: one per subsystem, the others parked.                   *)
(***************************************************************************)
RetryOnly(A) ==
    A /\ UNCHANGED <<streamVars, validateVars, sdkVars, threadVars, closeVars,
                     pluginVars,
                     embedVars, delayVars,
                     registryVars,
                     tokenVars,
                     coroutineVars,
                     flagVars>>

SpecRetryInit ==
    /\ RetryInit
    /\ StreamParked
    /\ ValidateParked
    /\ SdkParked
    /\ ThreadsInit
    /\ CloseInit
    /\ PluginsParked
    /\ EmbedParked
    /\ DelayParked
    /\ RegistryParked
    /\ TokensParked
    /\ CoroutinesParked
    /\ FlagParked

SpecRetryNext ==
    \/ RetryOnly(RetryStart)
    \/ RetryOnly(SyncInvoke)
    \/ RetryOnly(AsyncInvoke)
    \/ RetryOnly(RetrySleep)

SpecRetry == SpecRetryInit /\ [][SpecRetryNext]_vars

\* Mutant: fn() returns or raises, but time.sleep / asyncio.sleep may never
\* return.
RetryProgress_SleepMayHang ==
    /\ WF_vars(RetryOnly(RetryStart))
    /\ WF_vars(RetryOnly(SyncInvoke))
    /\ WF_vars(RetryOnly(AsyncInvoke))

\* What the engine relies on from what it calls: the call of the engine is
\* carried out, every `fn()` / `await fn()` returns or raises, and every
\* `time.sleep(...)` / `await asyncio.sleep(...)` ends.
RetryProgress ==
    /\ WF_vars(RetryOnly(RetryStart))
    /\ WF_vars(RetryOnly(SyncInvoke))
    /\ WF_vars(RetryOnly(AsyncInvoke))
    /\ WF_vars(RetryOnly(RetrySleep))

\* The retry engine with the progress of what it calls.
SpecRetryLive == SpecRetryInit /\ [][SpecRetryNext]_vars /\ RetryProgress

StreamOnly(A) ==
    A /\ UNCHANGED <<retryVars, validateVars, sdkVars, threadVars, closeVars,
                     pluginVars,
                     embedVars, delayVars,
                     registryVars,
                     tokenVars,
                     coroutineVars,
                     flagVars>>

SpecStreamInit ==
    /\ RetryParked
    /\ StreamInit
    /\ ValidateParked
    /\ SdkParked
    /\ ThreadsInit
    /\ CloseInit
    /\ PluginsParked
    /\ EmbedParked
    /\ DelayParked
    /\ RegistryParked
    /\ TokensParked
    /\ CoroutinesParked
    /\ FlagParked

SpecStreamNext ==
    \/ StreamOnly(StreamReturnOnDone)
    \/ StreamOnly(StreamYield)
    \/ StreamOnly(StreamProviderRaises)
    \/ StreamOnly(StreamExhausted)

SpecStream == SpecStreamInit /\ [][SpecStreamNext]_vars

ValidateOnly(A) ==
    A /\ UNCHANGED <<retryVars, streamVars, sdkVars, threadVars, closeVars,
                     pluginVars,
                     embedVars, delayVars,
                     registryVars,
                     tokenVars,
                     coroutineVars,
                     flagVars>>

SpecValidateInit ==
    /\ RetryParked
    /\ StreamParked
    /\ ValidateInit
    /\ SdkParked
    /\ ThreadsInit
    /\ CloseInit
    /\ PluginsParked
    /\ EmbedParked
    /\ DelayParked
    /\ RegistryParked
    /\ TokensParked
    /\ CoroutinesParked
    /\ FlagParked

SpecValidateNext == ValidateOnly(Validate)

SpecValidate == SpecValidateInit /\ [][SpecValidateNext]_vars

SdkOnly(A) == A /\ UNCHANGED <<threadVars, closeVars, pluginVars,
                     embedVars, delayVars,
                     registryVars,
                     tokenVars,
                     coroutineVars,
                     flagVars>>

SpecSdkInit ==
    /\ RetryParked
    /\ StreamParked
    /\ ValidateParked
    /\ SdkInit
    /\ ThreadsInit
    /\ CloseInit
    /\ PluginsParked
    /\ EmbedParked
    /\ DelayParked
    /\ RegistryParked
    /\ TokensParked
    /\ CoroutinesParked
    /\ FlagParked

SpecSdkNext ==
    \/ SdkOnly(SdkChat)
    \/ SdkOnly(SdkEmbed)
    \/ SdkOnly(SdkStreamChat)
    \/ SdkOnly(SdkRetryStep(RetryStart))
    \/ SdkOnly(SdkRetryStep(SyncInvoke))
    \/ SdkOnly(SdkRetryStep(AsyncInvoke))
    \/ SdkOnly(SdkRetryStep(RetrySleep))
    \/ SdkOnly(SdkCallEnds)
    \/ SdkOnly(SdkStreamStep(StreamReturnOnDone))
    \/ SdkOnly(SdkStreamStep(StreamYield))
    \/ SdkOnly(SdkStreamStep(StreamProviderRaises))
    \/ SdkOnly(SdkStreamStep(StreamExhausted))
    \/ SdkOnly(SdkStreamEnds)

SpecSdk == SpecSdkInit /\ [][SpecSdkNext]_vars

ThreadsOnly(A) ==
    A /\ UNCHANGED <<retryVars, streamVars, validateVars, sdkVars, closeVars,
                     pluginVars,
                     embedVars, delayVars,
                     registryVars,
                     tokenVars,
                     coroutineVars,
                     flagVars>>

SpecThreadsInit ==
    /\ RetryParked
    /\ StreamParked
    /\ ValidateParked
    /\ SdkParked
    /\ ThreadsInit
    /\ CloseInit
    /\ PluginsParked
    /\ EmbedParked
    /\ DelayParked
    /\ RegistryParked
    /\ TokensParked
    /\ CoroutinesParked
    /\ FlagParked

SpecThreadsNext ==
    \/ \E t \in Threads, p \in Providers : ThreadsOnly(ThreadLookup(t, p))
    \/ \E t \in Threads : ThreadsOnly(ThreadCreate(t))
    \/ \E t \in Threads : ThreadsOnly(ThreadStore(t))

SpecThreads == SpecThreadsInit /\ [][SpecThreadsNext]_vars

CloseOnly(A) ==
    A /\ UNCHANGED <<retryVars, streamVars, validateVars, sdkVars, threadVars,
                     pluginVars,
                     embedVars, delayVars,
                     registryVars,
                     tokenVars,
                     coroutineVars,
                     flagVars>>

SpecCloseInit ==
    /\ RetryParked
    /\ StreamParked
    /\ ValidateParked
    /\ SdkParked
    /\ ThreadsInit
    /\ CloseInit
    /\ PluginsParked
    /\ EmbedParked
    /\ DelayParked
    /\ RegistryParked
    /\ TokensParked
    /\ CoroutinesParked
    /\ FlagParked

SpecCloseNext ==
    \/ CloseOnly(set_cached)
    \/ CloseOnly(AcloseStart)
    \/ CloseOnly(AcloseIterationFails)
    \/ CloseOnly(AcloseClient)
    \/ CloseOnly(AcloseClear)

SpecClose == SpecCloseInit /\ [][SpecCloseNext]_vars

PluginsOnly(A) ==
    A /\ UNCHANGED <<retryVars, streamVars, validateVars, sdkVars, threadVars,
                     closeVars,
                     embedVars, delayVars,
                     registryVars,
                     tokenVars,
                     coroutineVars,
                     flagVars>>

SpecPluginsInit ==
    /\ RetryParked
    /\ StreamParked
    /\ ValidateParked
    /\ SdkParked
    /\ ThreadsInit
    /\ CloseInit
    /\ PluginsInit
    /\ EmbedParked
    /\ DelayParked
    /\ RegistryParked
    /\ TokensParked
    /\ CoroutinesParked
    /\ FlagParked

SpecPluginsNext ==
    \/ PluginsOnly(PluginsStart)
    \/ PluginsOnly(LoadEntryPoint)
    \/ PluginsOnly(RegistryLoadEntryPoint)
    \/ PluginsOnly(PluginsReturn)

SpecPlugins == SpecPluginsInit /\ [][SpecPluginsNext]_vars

EmbedOnly(A) ==
    A /\ UNCHANGED <<retryVars, streamVars, validateVars, sdkVars, threadVars,
                     closeVars, pluginVars, delayVars,
                     registryVars,
                     tokenVars,
                     coroutineVars,
                     flagVars>>

SpecEmbedInit ==
    /\ RetryParked
    /\ StreamParked
    /\ ValidateParked
    /\ SdkParked
    /\ ThreadsInit
    /\ CloseInit
    /\ PluginsParked
    /\ EmbedInit
    /\ DelayParked
    /\ RegistryParked
    /\ TokensParked
    /\ CoroutinesParked
    /\ FlagParked

SpecEmbedNext ==
    \/ EmbedOnly(NoopEmbed)
    \/ EmbedOnly(GeminiEmbed)

SpecEmbed == SpecEmbedInit /\ [][SpecEmbedNext]_vars

DelayOnly(A) ==
    A /\ UNCHANGED <<retryVars, streamVars, validateVars, sdkVars, threadVars,
                     closeVars, pluginVars, embedVars,
                     registryVars,
                     tokenVars,
                     coroutineVars,
                     flagVars>>

SpecDelayInit ==
    /\ RetryParked
    /\ StreamParked
    /\ ValidateParked
    /\ SdkParked
    /\ ThreadsInit
    /\ CloseInit
    /\ PluginsParked
    /\ EmbedParked
    /\ DelayInit
    /\ RegistryParked
    /\ TokensParked
    /\ CoroutinesParked
    /\ FlagParked

SpecDelayNext ==
    \/ DelayOnly(SyncComputeDelay)
    \/ DelayOnly(AsyncComputeDelay)

SpecDelay == SpecDelayInit /\ [][SpecDelayNext]_vars

SpecCancelInit ==
    /\ CancelInit
    /\ StreamParked
    /\ ValidateParked
    /\ SdkParked
    /\ ThreadsInit
    /\ CloseInit
    /\ PluginsParked
    /\ EmbedParked
    /\ DelayParked
    /\ RegistryParked
    /\ TokensParked
    /\ CoroutinesParked
    /\ FlagParked

SpecCancelNext ==
    \/ RetryOnly(RetryStart)
    \/ RetryOnly(AsyncInvoke)
    \/ RetryOnly(RetrySleep)
    \/ RetryOnly(RetryCancelled)

SpecCancel == SpecCancelInit /\ [][SpecCancelNext]_vars

RegistryOnly(A) ==
    A /\ UNCHANGED <<retryVars, streamVars, validateVars, sdkVars, threadVars,
                     closeVars, pluginVars, embedVars, delayVars,
                     tokenVars,
                     coroutineVars,
                     flagVars>>

SpecRegistryInit ==
    /\ RetryParked
    /\ StreamParked
    /\ ValidateParked
    /\ SdkParked
    /\ ThreadsInit
    /\ CloseInit
    /\ PluginsParked
    /\ EmbedParked
    /\ DelayParked
    /\ RegistryInit
    /\ TokensParked
    /\ CoroutinesParked
    /\ FlagParked

SpecRegistryNext ==
    \/ RegistryOnly(RegistryRegister)
    \/ RegistryOnly(RegistryGetCall)

SpecRegistry == SpecRegistryInit /\ [][SpecRegistryNext]_vars

SpecProviderStreamInit ==
    /\ RetryParked
    /\ ProviderStreamInit
    /\ ValidateParked
    /\ SdkParked
    /\ ThreadsInit
    /\ CloseInit
    /\ PluginsParked
    /\ EmbedParked
    /\ DelayParked
    /\ RegistryParked
    /\ TokensParked
    /\ CoroutinesParked
    /\ FlagParked

SpecProviderStreamNext ==
    \/ StreamOnly(StreamReturnOnDone)
    \/ StreamOnly(StreamYield)
    \/ StreamOnly(StreamProviderRaises)

SpecProviderStream == SpecProviderStreamInit /\ [][SpecProviderStreamNext]_vars

TokensOnly(A) ==
    A /\ UNCHANGED <<retryVars, streamVars, validateVars, sdkVars, threadVars,
                     closeVars, pluginVars, embedVars, delayVars, registryVars,
                     coroutineVars,
                     flagVars>>

SpecTokensInit ==
    /\ RetryParked
    /\ StreamParked
    /\ ValidateParked
    /\ SdkParked
    /\ ThreadsInit
    /\ CloseInit
    /\ PluginsParked
    /\ EmbedParked
    /\ DelayParked
    /\ RegistryParked
    /\ TokensInit
    /\ CoroutinesParked
    /\ FlagParked

SpecTokensNext ==
    \/ \E t \in TrackerThreads : TokensOnly(TrackerNew(t))
    \/ \E t \in TrackerThreads : TokensOnly(TrackerInitCheck(t))
    \/ \E t \in TrackerThreads : TokensOnly(TrackerInitLock(t))
    \/ \E t \in TrackerThreads : TokensOnly(TrackerInitCache(t))
    \/ \E t \in TrackerThreads : TokensOnly(TrackerInitDone(t))
    \/ \E t \in TrackerThreads : TokensOnly(AddUsageStart(t))
    \/ \E t \in TrackerThreads : TokensOnly(AddUsageRead(t))
    \/ \E t \in TrackerThreads : TokensOnly(AddUsageWrite(t))
    \/ \E t \in TrackerThreads : TokensOnly(AddUsageHistory(t))
    \/ \E t \in TrackerThreads : TokensOnly(ResetStart(t))
    \/ \E t \in TrackerThreads : TokensOnly(ResetBody(t))

SpecTokens == SpecTokensInit /\ [][SpecTokensNext]_vars

CoroutinesOnly(A) ==
    A /\ UNCHANGED <<retryVars, streamVars, validateVars, sdkVars, threadVars,
                     closeVars, pluginVars, embedVars, delayVars, registryVars,
                     tokenVars,
                     flagVars>>

SpecCoroutinesInit ==
    /\ RetryParked
    /\ StreamParked
    /\ ValidateParked
    /\ SdkParked
    /\ ThreadsInit
    /\ CloseInit
    /\ PluginsParked
    /\ EmbedParked
    /\ DelayParked
    /\ RegistryParked
    /\ TokensParked
    /\ CoroutinesInit
    /\ FlagParked

SpecCoroutinesNext ==
    \/ \E c \in Coroutines : CoroutinesOnly(CoLookup(c))
    \/ \E c \in Coroutines : CoroutinesOnly(CoCreate(c))
    \/ \E c \in Coroutines : CoroutinesOnly(CoStore(c))
    \/ \E c \in Coroutines : CoroutinesOnly(CoEnterRetries(c))
    \/ \E c \in Coroutines : CoroutinesOnly(CoCallEnds(c))
    \/ \E c \in Coroutines : CoroutinesOnly(CoWake(c))
    \/ CoroutinesOnly(CoAcloseStart)
    \/ CoroutinesOnly(CoAcloseEnds)

SpecCoroutines == SpecCoroutinesInit /\ [][SpecCoroutinesNext]_vars

FlagOnly(A) ==
    A /\ UNCHANGED <<retryVars, streamVars, validateVars, sdkVars, threadVars,
                     closeVars, pluginVars, embedVars, delayVars, registryVars,
                     tokenVars, coroutineVars>>

SpecFlagInit ==
    /\ RetryParked
    /\ StreamParked
    /\ ValidateParked
    /\ SdkParked
    /\ ThreadsInit
    /\ CloseInit
    /\ PluginsParked
    /\ EmbedParked
    /\ DelayParked
    /\ RegistryParked
    /\ TokensParked
    /\ CoroutinesParked
    /\ FlagInit

SpecFlagNext ==
    \/ FlagOnly(FlagSyncRun)
    \/ FlagOnly(FlagAsyncRun)

SpecFlag == SpecFlagInit /\ [][SpecFlagNext]_vars

(***************************************************************************)
(* Claims about the retry engine (checked under SpecRetry).                *)
(***************************************************************************)
\* The stub fails k times in a row with a retryable ProviderError, then succeeds.
FailsThenSucceeds(k) ==
    /\ \A i \in 1..k : OutcomeAt(i) = "retryable"
    /\ OutcomeAt(k + 1) = "ok"

\* C1: for max_attempts = N >= 1 and k < N, a stub that fails k times with a
\* retryable ProviderError and then succeeds makes the engine (blocking and
\* non-blocking) return that success after exactly k + 1 invocations.
C1_RetryThenSuccess ==
    \A k \in 0..(MaxAttempts - 1) :
        (RetryDone /\ rMax >= 1 /\ k < rMax /\ FailsThenSucceeds(k))
            => (rOutcome = Returned(k + 1) /\ rCalls = k + 1)

\* Witness of C1: two retryable failures, then success, under max_attempts = 3.
C1_Witness ==
    /\ rMax = 3
    /\ FailsThenSucceeds(2)
    /\ rState = "RETURNED"
    /\ rCalls = 3

\* C2: when invocation i raises a ProviderError whose retryable flag is false,
\* the engine ends by raising that very error; fn has been invoked i times
\* and not again, and no sleep follows the failure (the i - 1 sleeps are the
\* ones between the earlier attempts).  With i = 1: one invocation, whatever
\* max_attempts is.
C2_FatalPropagates ==
    \A i \in 1..MaxAttempts :
        (rCalls >= i /\ OutcomeAt(i) = "fatal")
            => /\ rState = "RAISED"
               /\ rOutcome = ProviderError(i)
               /\ rCalls = i
               /\ rSleeps = i - 1

\* Witness of C2: a non-retryable failure on the first attempt, max_attempts = 3.
C2_Witness ==
    /\ rMax = 3
    /\ OutcomeAt(1) = "fatal"
    /\ rState = "RAISED"
    /\ rCalls = 1

\* The stub raises a retryable ProviderError on every attempt of the budget.
AlwaysRetryable == \A i \in 1..rMax : OutcomeAt(i) = "retryable"

\* C3: a stub that always fails with a retryable ProviderError, under
\* max_attempts = N >= 1, is invoked exactly N times and the engine ends by
\* raising the exhaustion error (TimeoutError), in both modes.
C3_ExhaustionRaisesTimeout ==
    (RetryDone /\ rMax >= 1 /\ AlwaysRetryable)
        => (rCalls = rMax /\ rOutcome.kind = "TimeoutError")

\* C21: when the whole budget of N >= 1 attempts has been used on retryable
\* failures, the error raised is the exhaustion error, it carries the
\* provider name the engine was given and its last_error is the error of
\* the last attempt.  Violated by with_async_retries, which on the last
\* attempt re-raises the operation's ProviderError instead.
C21_ExhaustionErrorCarriesProviderAndLastError ==
    (rState = "RAISED" /\ rMax >= 1 /\ rCalls = rMax /\ AlwaysRetryable)
        => /\ rOutcome.kind = "TimeoutError"
           /\ rOutcome.provider = <<rProvider>>
           /\ rOutcome.err = rMax

\* C22: once the await during which the task is cancelled has begun, the
\* run of with_async_retries has ended by raising CancelledError and nothing
\* was awaited after it: no further invocation, no further sleep.
C22_CancellationPropagates ==
    (rCancel # 0 /\ Awaits >= rCancel)
        => /\ rState = "RAISED"
           /\ rOutcome.kind = "CancelledError"
           /\ Awaits = rCancel

\* A run cancelled in its first backoff sleep, after one retryable failure.
C22_Witness ==
    /\ rState = "RAISED"
    /\ rOutcome.kind = "CancelledError"
    /\ rCalls = 1
    /\ rSleeps = 1
    /\ rMax = 3

\* The engine of the other execution mode, run on the same policy and plan.
OtherMode(max, plan) ==
    IF rMode = "sync" THEN with_async_retries(max, plan)
                      ELSE with_retries(max, plan)

\* C12: for the same policy and the same sequence of outcomes of the wrapped
\* operation, with_retries and with_async_retries make the same number of
\* invocations and of sleeps and end with the same result or the same kind
\* of error.  Violated when the last attempt of the budget fails with a
\* retryable error: with_retries sleeps once more and raises TimeoutError,
\* with_async_retries re-raises the ProviderError without sleeping.
C12_ModesBehaveAlike ==
    RetryDone =>
        LET other == OtherMode(rMax, rPlan)
        IN  /\ rCalls = other.calls
            /\ rSleeps = other.sleeps
            /\ rOutcome.kind = other.outcome.kind
            /\ rOutcome.result = other.outcome.result

(***************************************************************************)
(* Claims about the streaming loop (checked under SpecStream).             *)
(***************************************************************************)
\* Number of leading items of the plan that are events: the provider's
\* sequence of events ends where its iterator raises or is exhausted.
RECURSIVE EventsBefore(_, _)
EventsBefore(plan, i) ==
    IF i > Len(plan) \/ plan[i].kind # "event" THEN i - 1
    ELSE EventsBefore(plan, i + 1)

\* The sequence of events the provider's stream_chat produces.
Produced == SubSeq(sPlan, 1, EventsBefore(sPlan, 1))

\* Index of the first event with done = true, 0 if there is none.
FirstDone(events) ==
    IF \E i \in 1..Len(events) : events[i].done
    THEN CHOOSE i \in 1..Len(events) :
             events[i].done /\ \A j \in 1..(i - 1) : ~events[j].done
    ELSE 0

\* The prefix up to and including the first terminal event.
ThroughFirstDone(events) ==
    IF FirstDone(events) = 0 THEN events
    ELSE SubSeq(events, 1, FirstDone(events))

IsPrefix(a, b) == Len(a) <= Len(b) /\ a = SubSeq(b, 1, Len(a))

\* C6: the events delivered to the caller are, in order, a prefix of the
\* provider's events that never goes past the first event with done = true,
\* and when the stream has ended they are exactly the prefix up to and
\* including that event.
C6_DeliversThroughFirstDone ==
    /\ IsPrefix(sDelivered, ThroughFirstDone(Produced))
    /\ sState \in {"RETURNED", "RAISED"}
           => sDelivered = ThroughFirstDone(Produced)

\* Witness of C6: deltas "a", "a", then "" with done = true, then one more
\* event; the stream has ended with the first three delivered.
C6_Witness ==
    /\ sState = "RETURNED"
    /\ Len(Produced) = 4
    /\ Len(sDelivered) = 3
    /\ sDelivered[1] = ChatStreamEvent("a", FALSE)
    /\ sDelivered[3] = ChatStreamEvent("", TRUE)

\* The provider's iterator is exhausted although the last event it produced
\* was not terminal: the loop of stream_chat would end without a terminal
\* event.
EndsWithoutDone == StreamCanPull /\ sPos = Len(sPlan)

NonEmpty(field) == field # None /\ field[1] # <<>>

Populated(part) ==
    \/ part.type = "text" /\ part.text # None /\ strip(part.text[1]) # <<>>
    \/ part.type \in {"image_url", "file_uri"}
           /\ (NonEmpty(part.url) \/ NonEmpty(part.uri))
    \/ part.type = "image_bytes" /\ NonEmpty(part.data)

MessagePopulated(m) ==
    \E i \in 1..Len(normalized_parts(m)) : Populated(normalized_parts(m)[i])

Validated == vVerdict # "pending"

IsValidationError(verdict) == verdict \notin {"pending", "ok"}

TemperatureInBounds ==
    /\ ~vRequest.temperature.nan
    /\ 0 <= vRequest.temperature.hundredths
    /\ vRequest.temperature.hundredths <= 200

OtherwiseValid ==
    /\ Len(vRequest.messages) > 0
    /\ \A i \in 1..Len(vRequest.messages) :
           MessagePopulated(vRequest.messages[i])

\* C19: for an otherwise valid request, validate_chat accepts the
\* temperature iff it lies in [0.0, 2.0], and rejects with ValidationError
\* every other one.  Violated by NaN: both comparisons of the test are
\* False for it, so a temperature that is not in the interval is accepted.
C19_TemperatureAcceptedIffInBounds ==
    (Validated /\ OtherwiseValid) =>
        /\ vVerdict = "ok" <=> TemperatureInBounds
        /\ ~TemperatureInBounds => IsValidationError(vVerdict)

(***************************************************************************)
(* Claims about the SDK entry points (SpecSdk).                            *)
(***************************************************************************)
\* C4: two sequential calls that obtain the client of the same provider
\* name invoke the factory of that name exactly once, and the second call
\* gets the client the first one created.  Violated by AsyncLLM of
\* src/llm_sdk, which never stores the client it creates.
C4_SequentialCallsOneFactoryCall ==
    \A p \in Providers :
        Len(sdkObtained[p]) >= 2 =>
            /\ sdkFactoryCalls[p] = 1
            /\ sdkObtained[p][2] = sdkObtained[p][1]

\* C8: an operation whose request is malformed under the validator of its
\* kind, and which is otherwise dispatchable (the provider is registered,
\* supports the operation and offers the model), ends with ValidationError
\* without invoking the client factory, calling a provider method or
\* consuming a retry attempt.  Violated by AsyncLLM.stream_chat, which does
\* not validate.
C8_MalformedRejectedBeforeProvider ==
    (sdkOp.phase # "none" /\ sdkOp.malformed /\ sdkOp.resolved = "ok") =>
        /\ sdkOp.phase = "done"
        /\ sdkOp.outcome = "ValidationError"
        /\ sdkOp.factoryCalls = 0
        /\ sdkOp.providerCalls = 0
        /\ sdkOp.client = 0
        /\ rCalls = 0

\* A chat or embed that was valid, went to a registered provider supporting
\* it, got its client, and whose provider call succeeds on the first attempt.
SucceedsAtOnce ==
    /\ sdkOp.phase = "done"
    /\ sdkOp.op \in {"chat", "embed"}
    /\ sdkOp.resolved = "ok"
    /\ ~sdkOp.malformed
    /\ sdkOp.client # 0
    /\ PlanAt(sdkOp.stub, 1) = "ok"

\* C13: such an operation returns the response of the provider's first
\* invocation, having invoked the provider method exactly once.  Violated
\* by AsyncLLM of src/llm_sdk: its call of with_async_retries passes
\* `retry_policy=` to a function whose parameter is `policy`, so chat and
\* embed raise TypeError and the provider is never called.
C13_ValidRequestReturnsProviderResponse ==
    SucceedsAtOnce =>
        /\ sdkOp.outcome = "return"
        /\ sdkOp.result = 1
        /\ sdkOp.providerCalls = 1

\* The provider's iterator has raised on behalf of the stream_chat in
\* progress, and the generator has not yet been left.
StreamFailed ==
    /\ sdkOp.phase = "streaming"
    /\ sPos >= 1
    /\ sPlan[sPos].kind = "raise"

\* C14: a retryable ProviderError raised while the stream is being
\* established, before any event has been yielded, is retried under the
\* policy (max_attempts = 3): it does not reach the caller after a single
\* establishment attempt.  Violated: stream_chat iterates
\* client.stream_chat(req) outside the retry engine, in both classes.
C14_EstablishmentFailureIsRetried ==
    (StreamFailed /\ sDelivered = <<>> /\ sPlan[sPos] = ProviderStreamError(TRUE)
        /\ sState = "RAISED")
        => sdkOp.providerCalls > 1

\* C15: once stream_chat has yielded an event, a failure of the provider
\* reaches the caller at once, the provider's stream_chat has been invoked
\* once for the request, and the events delivered are the provider's events
\* before the failure, each once and in order.
C15_MidStreamFailurePropagates ==
    /\ (StreamFailed /\ sDelivered # <<>>) =>
           /\ sState = "RAISED"
           /\ sdkOp.providerCalls = 1
           /\ sDelivered = SubSeq(sPlan, 1, sPos - 1)
    /\ (sdkOp.phase = "done" /\ sdkOp.op = "stream_chat" /\ sdkOp.client # 0)
           => sdkOp.providerCalls = 1

\* Witness of C15: one event delivered, then the provider fails with a
\* retryable ProviderError, and the generator has raised.
C15_Witness ==
    /\ StreamFailed
    /\ sDelivered = <<ChatStreamEvent("a", FALSE)>>
    /\ sPlan[sPos] = ProviderStreamError(TRUE)
    /\ sState = "RAISED"

\* C16: an operation whose provider name or model name is still empty after
\* the fall-back to the configured defaults ends with ValidationError, raised
\* by the resolution step before any registry lookup, factory call or
\* provider call.  Violated by AsyncLLM: it has no emptiness test, so an
\* empty provider name goes to registry.get (KeyError) and an empty model
\* name goes all the way to the provider.
C16_EmptyProviderOrModelRejected ==
    (sdkOp.phase # "none" /\ (sdkOp.provider = "" \/ sdkOp.model = "")) =>
        /\ sdkOp.phase = "done"
        /\ sdkOp.outcome = "ValidationError"
        /\ sdkOp.resolved = "ValidationError"
        /\ sdkOp.factoryCalls = 0
        /\ sdkOp.providerCalls = 0

\* The provider does not support the operation, or (for AsyncLLM) the
\* non-blocking mode.
Unsupported(variant, entry, op) ==
    ~Supports(entry, op) \/ (variant # "sync" /\ ~entry.is_async)

\* C17: an operation on a registered provider that does not support the
\* requested operation or execution mode ends with ValidationError, before
\* the client factory is invoked and before any provider call.  Violated by
\* the blocking LLM: the ProviderSpec of its registry carries no capability
\* descriptor and chat / embed / stream_chat make no capability test.
C17_UnsupportedCapabilityRejected ==
    (/\ sdkOp.phase # "none"
     /\ sdkOp.resolved \in {"ok", "ValidationError"}
     /\ registry_has(sdkOp.provider)
     /\ Unsupported(sdkVariant, sdkRegistry[sdkOp.provider], sdkOp.op)) =>
        /\ sdkOp.phase = "done"
        /\ sdkOp.outcome = "ValidationError"
        /\ sdkOp.factoryCalls = 0
        /\ sdkOp.providerCalls = 0

\* The operation invoked the factory of its provider, and that factory
\* produces an object that is not a client of the SDK's execution mode.
GotMismatchedClient ==
    /\ sdkOp.phase # "none"
    /\ sdkOp.factoryCalls >= 1
    /\ sdkRegistry[sdkOp.provider].factory = "bad_type"

\* C27: such an operation ends with the type-mismatch error (TypeError)
\* without a provider call, and the object is neither handed to the
\* operation nor cached.  Violated by the blocking LLM: _get_client has no
\* type test, so it caches whatever the factory returns and chat / embed /
\* stream_chat call the provider method on it.
C27_TypeMismatchIsFatal ==
    GotMismatchedClient =>
        /\ sdkOp.phase = "done"
        /\ sdkOp.outcome = "TypeError"
        /\ sdkOp.client = 0
        /\ sdkOp.providerCalls = 0
        /\ sdkCache[sdkOp.provider] = 0

\* How the streaming loop ends over what the provider's iterator does: by
\* the exception of the first item that raises, unless a terminal event
\* precedes it.
StreamOutcome(plan) ==
    LET stops == {i \in 1..Len(plan) : plan[i].kind = "raise" \/ plan[i].done}
        first == CHOOSE i \in stops : \A j \in stops : i <= j
    IN  IF stops # {} /\ plan[first].kind = "raise" THEN "StreamError"
        ELSE "return"

\* The retry engine of the SDK's execution mode.
Engine(variant, max, plan) ==
    IF variant = "sync" THEN with_retries(max, plan)
                        ELSE with_async_retries(max, plan)

\* The operation ended as the same operation ends on an instance that has a
\* logger: the same error before the provider is reached, or the result or
\* error of the same provider outcomes, with the same factory and provider
\* invocations.
EndsAsWithLogger ==
    /\ sdkOp.factoryCalls = sdkExpected.factoryCalls
    /\ IF sdkExpected.early # ""
       THEN /\ sdkOp.outcome = sdkExpected.early
            /\ sdkOp.providerCalls = 0
       ELSE IF sdkOp.op = "stream_chat"
       THEN /\ sdkOp.outcome = StreamOutcome(sdkOp.stub)
            /\ sdkOp.providerCalls = 1
       ELSE LET run == Engine(sdkVariant, DefaultMaxAttempts, sdkOp.stub)
            IN  /\ sdkOp.outcome = run.outcome.kind
                /\ sdkOp.result = run.outcome.result
                /\ sdkOp.providerCalls = run.calls

\* C28: an operation of an instance without a logger ends as it does on an
\* instance with a logger.  Violated by AsyncLLM of src/llm_sdk, whose chat,
\* embed and stream_chat begin with `self.logger.bind(...)`: without a
\* logger they raise AttributeError before anything else happens.
C28_NoLoggerSameBehaviour ==
    (sdkOp.phase = "done" /\ ~sdkLogger) => EndsAsWithLogger

(***************************************************************************)
(* Claim about threads sharing one LLM (SpecThreads).                      *)
(***************************************************************************)
\* The threads whose first call for the provider has returned.
Callers(p) == {t \in Threads : thProvider[t] = p /\ thPc[t] = "done"}

\* C5: when threads concurrently make their first call for the same
\* provider name that is not cached yet, the factory of that provider is
\* invoked exactly once and all the callers get the same client.  Violated:
\* LLM._get_client takes no lock, so two threads can both miss the cache
\* and both call the factory.
C5_ConcurrentFirstCallsOneFactoryCall ==
    \A p \in Providers :
        Callers(p) # {} =>
            /\ thFactoryCalls[p] = 1
            /\ \A t1, t2 \in Callers(p) : thClient[t1] = thClient[t2]

(***************************************************************************)
(* Claim about AsyncResourceManager.aclose (SpecClose).                    *)
(***************************************************************************)
\* C9: when aclose has finished, by returning or by raising, and no other
\* task has touched the cache meanwhile, the aclose() of every client that
\* was cached has been called and the cache is empty.  Violated: the loop
\* of aclose stops at the first client whose aclose() raises, and
\* `self._clients.clear()` is not reached.
C9_CloseAllClosesEveryClient ==
    (cmState \in {"RETURNED", "RAISED"} /\ ~cmDisturbed) =>
        /\ cmTargets \subseteq cmAttempted
        /\ cmClients = <<>>

\* C23: aclose called on an empty cache closes nothing and returns, and
\* over any sequence of aclose calls no client is closed twice, every client
\* cached when an aclose that returned was called having been closed once.
\* Violated: when a client's aclose() raises, the cache is not cleared, and
\* the next aclose closes again the clients that precede it in the cache.
C23_CloseAllIsIdempotent ==
    /\ (cmState \in {"RETURNED", "RAISED"} /\ cmTargets = {} /\ ~cmDisturbed)
           => (cmState = "RETURNED" /\ cmAttempted = {})
    /\ \A id \in 1..MaxClients : cmCloseCount[id] <= 1
    /\ (cmState = "RETURNED" /\ ~cmDisturbed)
           => \A id \in cmTargets : cmCloseCount[id] = 1

(***************************************************************************)
(* Claim about the plugin loaders (SpecPlugins).                           *)
(***************************************************************************)
\* The plugin names that have a failing entry point.
FailingNames ==
    {plEps[i].name : i \in {j \in 1..Len(plEps) : plEps[j].behaviour # "ok"}}

\* C10: loading plugins never raises because a plugin fails to load or to
\* register; when it has finished, every failing plugin is recorded under
\* its name with a non-empty error text and every other discovered plugin
\* is loaded.  Violated: ProviderRegistry.load_plugins catches nothing, so
\* the first failing plugin ends it, unrecorded, and the plugins after it
\* are not loaded.
C10_PluginFailureIsRecorded ==
    /\ plState # "RAISED"
    /\ plState = "RETURNED" =>
           /\ \A n \in FailingNames : plFailed[n] # NoError
           /\ \A i \in 1..Len(plEps) :
                  plEps[i].behaviour = "ok" => plEps[i].name \in plRegistered

\* ProviderRegistry.get(name): whether the name resolves (it raises
\* KeyError otherwise).
Resolvable(name) == name \in plRegistered

\* `name in loaded`
InLoaded(name) == \E i \in 1..Len(plLoaded) : plLoaded[i] = name

\* C11: after the loader has returned, every discovered plugin name is in
\* exactly one of the loaded list and the failed map, and every name
\* reported as loaded is resolvable through the registry's get.  Violated:
\* ProviderRegistry.load_plugins returns None and keeps neither a loaded
\* list nor a failed map, so a discovered name is in none of the two.
C11_LoadedFailedPartition ==
    plState = "RETURNED" =>
        /\ \A i \in 1..Len(plEps) :
               InLoaded(plEps[i].name) # (plFailed[plEps[i].name] # NoError)
        /\ \A i \in 1..Len(plLoaded) : Resolvable(plLoaded[i])

(***************************************************************************)
(* Claim about the providers' embed (SpecEmbed).                           *)
(***************************************************************************)
\* C18: whenever embed returns, the response holds exactly one vector per
\* input string.  Violated by AsyncGeminiLLMClient: _extract_embeddings
\* returns as many vectors as the API's response carries (none when it has
\* neither embeddings nor values, one when it has only values) and nothing
\* compares that number with len(request.input).
C18_OneVectorPerInput ==
    eState = "RETURNED" => Len(eVectors) = Len(eInput)

(***************************************************************************)
(* Claim about compute_delay (SpecDelay).                                  *)
(***************************************************************************)
\* C20: the delay computed is at least 0 and at most max_delay_s, for every
\* policy and attempt number.  Violated by RetryPolicy.compute_delay, which
\* adds a jitter of up to base_delay_s to the capped value.
C20_DelayWithinCap ==
    dState = "RETURNED" => (0 <= dDelay /\ dDelay <= dMax)

(***************************************************************************)
(* Claims about the provider registries (SpecRegistry).                    *)
(***************************************************************************)
\* C24: after an entry has been registered, get of its name returns that
\* entry, whether the name was free or taken, and what is stored under
\* every other name is what was stored before.
C24_RegisterLastWriteWins ==
    regLast.op = "register" =>
        /\ RegistryGet(regKind, regEntries, regLast.name).kind = "return"
        /\ RegistryGet(regKind, regEntries, regLast.name).entry = regLast.entry
        /\ \A n \in NameSet \ {regLast.name} :
               regEntries[n] = regLast.before[n]

\* An entry has replaced a different entry of the same name while another
\* name was registered.
C24_Witness ==
    /\ regLast.op = "register"
    /\ regLast.before[regLast.name] # None
    /\ regLast.before[regLast.name] # regLast.entry
    /\ \E n \in NameSet \ {regLast.name} : regEntries[n] # None

\* C25: get of a registered name returns its entry; get of a name that is
\* not registered raises ProviderNotFoundError whose text names the
\* requested provider and lists the known providers in sorted order; the
\* registry is unchanged by a failed get.  Violated by both registries: the
\* text of sync_registry's ProviderNotFoundError has no list of providers,
\* and async_registry raises KeyError.
C25_GetReturnsOrProviderNotFound ==
    regLast.op = "get" =>
        IF regLast.before[regLast.name] # None
        THEN /\ regLast.result.kind = "return"
             /\ regLast.result.entry = regLast.before[regLast.name]
        ELSE /\ regLast.result.kind = "ProviderNotFoundError"
             /\ regLast.result.message[1].name = regLast.name
             /\ regLast.result.message[1].available =
                    Some(SortedKeys(regLast.before))
             /\ regEntries = regLast.before

(***************************************************************************)
(* Claim about the TokenTracker (SpecTokens).                              *)
(***************************************************************************)
\* No thread is inside __init__, add_usage or reset.
TrackerQuiescent ==
    \A t \in TrackerThreads : tkPc[t] \in {"start", "new", "ready", "failed"}

\* C29: there is at most one TokenTracker, and whenever no call is in
\* progress on the initialized tracker its total_tokens is the sum of the
\* token counts added since the last reset and the sum of the token_count of
\* its history items.  Violated: __init__ tests and sets _initialized
\* outside any lock, so a second first-time constructor replaces _data_lock
\* and cache after another thread has already recorded usage.
C29_TrackerLosesNoUsage ==
    /\ tkInstances <= 1
    /\ (TrackerQuiescent /\ tkInitialized) =>
           /\ tkTotal[tkCache] = tkAdded
           /\ tkTotal[tkCache] = Sum(tkHistory[tkCache])

(***************************************************************************)
(* Claim about the backoff sleeps (SpecRetry).                             *)
(***************************************************************************)
\* C30: a backoff sleep happens only between two attempts: the engine never
\* backs off after the invocation number max_attempts, and a run that has
\* ended after n >= 1 invocations has slept at most n - 1 times.  Violated
\* by with_retries, which sleeps after every retryable failure, the last
\* one included, before it raises TimeoutError.
C30_SleepsOnlyBetweenAttempts ==
    /\ rState = "BACKING_OFF" => rCalls < rMax
    /\ (RetryDone /\ rCalls >= 1) => rSleeps <= rCalls - 1

(***************************************************************************)
(* Claims about the attempt budget (SpecRetry).                            *)
(***************************************************************************)
\* C31: whatever policy the engine is given, the operation is invoked at
\* most max_attempts times, a run that has ended has invoked it at least
\* once, and exhaustion in particular is never reported without an
\* invocation.  Violated: RetryPolicy accepts any integer as max_attempts,
\* and with max_attempts = 0 the loop body never runs, so the engine raises
\* TimeoutError without having called the operation.
C31_AtLeastOneInvocation ==
    /\ rCalls <= rMax
    /\ RetryDone => rCalls >= 1
    /\ (rState = "RAISED" /\ rOutcome.kind = "TimeoutError") => rCalls >= 1

(***************************************************************************)
(* Claim about the backoff formula (SpecDelay).                            *)
(***************************************************************************)
\* The number, counted from 1, of the failed attempt after which the engine
\* asks for the delay: with_retries passes its loop variable, which starts
\* at 0, with_async_retries its own, which starts at 1.
FailedAttempt == dAttempt - FirstAttempt(dMode) + 1

\* The values the policy can return for the inputs at hand.
PossibleDelays ==
    IF dMode = "sync" THEN SyncDelays(dBase, dMax, dAttempt)
                      ELSE AsyncDelays(dBase, dMax, dAttempt)

\* C32: the delay computed after the n-th failed attempt is at most
\* base_delay_s * 2^(n-1), and 0 is among the delays the policy can return
\* for that attempt (full jitter).  Violated by RetryPolicy.compute_delay,
\* whose delay after the second and later failures is at least
\* min(max_delay_s, base_delay_s * (2^(n-1) - 1)).
C32_FullJitterBelowExponential ==
    dState = "RETURNED"
        => /\ dDelay <= dBase * Pow2(FailedAttempt - 1)
           /\ 0 \in PossibleDelays

Holders == {c \in Coroutines : coPc[c] \in {"obtained", "calling", "sleeping", "done"}}

\* C34: a coroutine that is between the cache lookup and the cache store of
\* get-or-create has the event loop, so no other coroutine runs meanwhile;
\* and as long as nothing has cleared the cache, the coroutines that made
\* their first call for the provider have caused one factory invocation and
\* hold one and the same client.  Violated by AsyncLLM of src/llm_sdk, whose
\* get-or-create stores nothing: every coroutine creates its own client.
C34_CoroutinesShareOneClient ==
    /\ \A c \in Coroutines : coPc[c] \in {"missed", "created"} => coRunning = c
    /\ (coCloser = "idle" /\ Holders # {})
           => /\ coFactoryCalls = 1
              /\ \A c1, c2 \in Holders : coClient[c1] = coClient[c2]

\* C37: no provider method is started on a client whose aclose() has
\* returned.  Violated: a chat call that holds its client and is suspended
\* in the backoff sleep is resumed after aclose() has closed that client,
\* and the next attempt calls client.chat on it; nothing marks a client
\* closed or stops the operations that hold it.
C37_NoCallOnClosedClient == ~coOnClosed

(***************************************************************************)
(* Claim about the cache changing during aclose (SpecClose).               *)
(***************************************************************************)
\* The step is the iterator of aclose raising because the dict changed size.
FailsOnChangedCache == cmState = "CLOSING" /\ ChangedSize /\ cmState' = "RAISED"

\* The step empties the cache while a client in it has not been closed.
DropsUnclosed ==
    /\ cmClients' = <<>>
    /\ \E i \in 1..Len(cmClients) : cmClients[i].id \notin cmClosed

\* C38: no step of aclose fails because the cache changed while it was
\* iterating, and no step removes from the cache a client that has not
\* been closed.  Violated: a client stored under a new name while aclose is
\* suspended in `await c.aclose()` changes the size of the dict, and the
\* iterator raises RuntimeError when aclose is resumed.
C38_CachedClientsClosedBeforeRemoval ==
    [][~FailsOnChangedCache /\ ~DropsUnclosed]_vars

(***************************************************************************)
(* Claim about the fields that make a part populated (SpecValidate).       *)
(***************************************************************************)
\* A part whose own field, the one of its type, is non-empty: text after
\* trimming for "text", url for "image_url", uri for "file_uri", data for
\* "image_bytes".
PopulatedByOwnField(part) ==
    \/ part.type = "text" /\ NonEmpty(part.text)
                          /\ Len(strip(part.text[1])) > 0
    \/ part.type = "image_url" /\ NonEmpty(part.url)
    \/ part.type = "file_uri" /\ NonEmpty(part.uri)
    \/ part.type = "image_bytes" /\ NonEmpty(part.data)

\* The request has one message and that message one part.
OnePartRequest ==
    /\ Len(vRequest.messages) = 1
    /\ Len(normalized_parts(vRequest.messages[1])) = 1

\* C35: validate_chat treats a part as populated iff the field of its own
\* type is non-empty: a request of one message with one part, temperature
\* within bounds, passes iff that holds of the part.  Violated: the test for
\* image_url and file_uri parts is `(part.url or part.uri)`, so an image_url
\* part with no url but a uri (and a file_uri part with no uri but a url)
\* passes.
C35_PopulatedByOwnFieldOnly ==
    (Validated /\ TemperatureInBounds /\ OnePartRequest)
        => (vVerdict = "ok"
              <=> PopulatedByOwnField(normalized_parts(vRequest.messages[1])[1]))

(***************************************************************************)
(* Claim about a failed get-or-create (SpecSdk).                           *)
(***************************************************************************)
\* The provider name is not registered, or its factory raises.
CannotBeCreated(p) == ~registry_has(p) \/ sdkRegistry[p].factory = "raises"

\* C39: a provider that is not registered or whose factory raises never
\* gets an entry in the client cache, whatever operations have been tried
\* on it; so every operation that ends with the factory's error has invoked
\* the factory itself, the second such operation like the first, and one
\* that ends with the registry's error has not invoked any factory.
C39_FailedCreateLeavesCacheUnchanged ==
    /\ \A p \in Providers : CannotBeCreated(p) => sdkCache[p] = 0
    /\ (sdkOp.phase = "done" /\ sdkOp.outcome = "FactoryError")
           => sdkOp.factoryCalls = 1
    /\ (sdkOp.phase = "done"
           /\ sdkOp.outcome \in {"KeyError", "ProviderNotFoundError"})
           => sdkOp.factoryCalls = 0

\* Two operations on a provider whose factory raises: both ended with the
\* factory's error, the factory was invoked twice and nothing is cached.
C39_Witness ==
    /\ sdkOps = 2
    /\ sdkOp.phase = "done"
    /\ sdkOp.outcome = "FactoryError"
    /\ sdkFactoryCalls[sdkOp.provider] = 2
    /\ sdkCache[sdkOp.provider] = 0

====
